------------------------------- MODULE MCQueue -------------------------------
(* Instance of WriteQueue for TLC: the two kinds of writes the app makes.  *)
EXTENDS QueueRefinement

CONSTANTS page, pic

\* A page node holds the page's answers and its pictures' links.
MCLeaves == {page, pic}

\* child("firstPage").setValue(inputVals) replaces the whole node
PageWrite == {page, pic}

\* child("firstPage").child("pic1").setValue(url)
PictureWrite == {pic}

MCFootprints == {PageWrite, PictureWrite}

MCRefused == {PictureWrite}
==============================================================================
