-------------------------- MODULE PageGraphProofs --------------------------
(***************************************************************************)
(* Facts read off the tables of PageGraph, and the facts about a stack     *)
(* that its users share: replacing its top, pushing over it, popping it.   *)
(***************************************************************************)
EXTENDS PageGraph, SequenceTheorems, TLAPS

(* What the push table says of a live page, read off its thirteen rows:    *)
(* its pushes are live pages, only page four skips (to the final page),    *)
(* and the final page pushes nothing.                                      *)
LEMMA LivePushFacts ==
    ASSUME NEW vc \in LivePages, NEW to \in LivePushes(vc)
    PROVE  /\ to \in LivePages
           /\ Page[vc].num \in 1..6
           /\ Page[to].num \in 1..7
           /\ Page[to].num <= Page[vc].num + 1
                \/ (Page[vc].num = 4 /\ Page[to].num = 7)
BY DEF LivePages, LivePushes, FourthTargets, Page, Controller,
       FirstNoPage, SecondNoPage, ThirdNoPage, FourthNoPage, FifthNoPage,
       SixthNoPage, FirstNAPage, SecondNAPage, ThirdNAPage, FourthNAPage,
       FifthNAPage, SixthNAPage, FinalPage

(* A sequence without its last element.                                    *)
LEMMA FrontProperties ==
    ASSUME NEW S, NEW s \in Seq(S), s # <<>>
    PROVE  /\ SubSeq(s, 1, Len(s) - 1) \in Seq(S)
           /\ Len(SubSeq(s, 1, Len(s) - 1)) = Len(s) - 1
           /\ DOMAIN SubSeq(s, 1, Len(s) - 1) = 1..(Len(s) - 1)
           /\ DOMAIN s = 1..Len(s)
           /\ Len(s) \in Nat \ {0}
           /\ \A i \in 1..(Len(s) - 1) : SubSeq(s, 1, Len(s) - 1)[i] = s[i]
<1> DEFINE m == Len(s) - 1
           t == SubSeq(s, 1, m)
<1>1. Len(s) \in Nat \ {0} /\ DOMAIN s = 1..Len(s)
  OBVIOUS
<1>2. m \in Nat /\ \A i \in 1..m : s[i] \in S
  BY <1>1
<1>3. /\ t \in Seq(S)
      /\ Len(t) = IF 1 <= m THEN m - 1 + 1 ELSE 0
      /\ \A i \in 1..(m - 1 + 1) : t[i] = s[1 + i - 1]
  <2> HIDE DEF m
  <2> QED
    BY <1>2, SubSeqProperties
<1> HIDE DEF m, t
<1>4. Len(t) = m
  BY <1>2, <1>3
<1>5. DOMAIN t = 1..m
  BY <1>3, <1>4
<1>6. \A i \in 1..m : t[i] = s[i]
  BY <1>2, <1>3
<1> QED
  BY <1>1, <1>3, <1>4, <1>5, <1>6 DEF m, t

LEMMA EntryFacts ==
    ASSUME NEW vc \in EntryPages
    PROVE  vc \in LivePages /\ Page[vc].num \in {1, 2}
BY DEF EntryPages, LivePages, Page, Controller,
       FirstNoPage, SecondNoPage, ThirdNoPage, FourthNoPage, FifthNoPage,
       SixthNoPage, FirstNAPage, SecondNAPage, ThirdNAPage, FourthNAPage,
       FifthNAPage, SixthNAPage, FinalPage

LEMMA LivePageNum == \A vc \in LivePages : Page[vc].num \in 1..7
BY DEF LivePages, Page, Controller,
       FirstNoPage, SecondNoPage, ThirdNoPage, FourthNoPage, FifthNoPage,
       SixthNoPage, FirstNAPage, SecondNAPage, ThirdNAPage, FourthNAPage,
       FifthNAPage, SixthNAPage, FinalPage


(* Question pages, their submissions and what they push.                   *)
LEMMA QuestionPageFacts ==
    ASSUME NEW vc \in LivePages, Page[vc].kind \in {"No", "NA"}
    PROVE  /\ vc \in QuestionPages
           /\ Page[vc].num \in Pages
           /\ Submits[vc].node = Page[vc].num
           /\ Submits[vc].answer = IF Page[vc].kind = "No" THEN "global" ELSE "N/A"
           /\ Submits[vc].reasons \in 0..5
           /\ Page[vc].onSelect \in LivePages
           /\ Page[Page[vc].onSelect].kind
                 = IF Page[vc].kind = "No" THEN "NA" ELSE "No"
           /\ Page[Page[vc].onSelect].num
                 = IF vc = "sixthNAPage" THEN 4 ELSE Page[vc].num
           /\ Page[vc].num # 4 =>
                /\ Page[vc].segue \in LivePages
                /\ Page[Page[vc].segue].num = Page[vc].num + 1
                /\ Page[Page[vc].segue].kind
                      = IF Page[vc].num = 6 THEN "Final" ELSE "No"
BY DEF QuestionPages, Submits, Submission, Pages,
       FirstNoSubmission, SecondNoSubmission, ThirdNoSubmission,
       FourthNoSubmission, FifthNoSubmission, SixthNoSubmission,
       FirstNASubmission, SecondNASubmission, ThirdNASubmission,
       FourthNASubmission, FifthNASubmission, SixthNASubmission,
       LivePages, Page, Controller,
       FirstNoPage, SecondNoPage, ThirdNoPage, FourthNoPage, FifthNoPage,
       SixthNoPage, FirstNAPage, SecondNAPage, ThirdNAPage, FourthNAPage,
       FifthNAPage, SixthNAPage, FinalPage

(* The kinds of the live pages, and which globals their loading clears.    *)
LEMMA LivePageFacts ==
    ASSUME NEW vc \in LivePages
    PROVE  /\ Page[vc].num \in 1..7
           /\ Page[vc].kind \in {"No", "NA", "Final"}
           /\ Page[vc].kind = "Final" <=> Page[vc].num = 7
           /\ Page[vc].num \notin Page[vc].clears
           /\ Page[vc].kind = "No" /\ Page[vc].num > 1 =>
                Page[vc].clears = {Page[vc].num - 1}
           /\ Page[vc].kind = "Final" => Page[vc].clears = {4, 6}
           /\ Page[vc].num = 1 \/ Page[vc].kind = "NA" => Page[vc].clears = {}
BY DEF LivePages, Page, Controller,
       FirstNoPage, SecondNoPage, ThirdNoPage, FourthNoPage, FifthNoPage,
       SixthNoPage, FirstNAPage, SecondNAPage, ThirdNAPage, FourthNAPage,
       FifthNAPage, SixthNAPage, FinalPage

(* The pages pushed by name in code.                                       *)
LEMMA NamedPageFacts ==
    /\ {"firstNoPage", "secondNoPage", "fifthNoPage", "finalPage"}
          \subseteq LivePages
    /\ Page["firstNoPage"].num = 1 /\ Page["firstNoPage"].kind = "No"
    /\ Page["secondNoPage"].num = 2 /\ Page["secondNoPage"].kind = "No"
    /\ Page["fifthNoPage"].num = 5 /\ Page["fifthNoPage"].kind = "No"
    /\ Page["finalPage"].num = 7 /\ Page["finalPage"].kind = "Final"
BY DEF LivePages, Page, Controller,
       FirstNoPage, SecondNoPage, ThirdNoPage, FourthNoPage, FifthNoPage,
       SixthNoPage, FirstNAPage, SecondNAPage, ThirdNAPage, FourthNAPage,
       FifthNAPage, SixthNAPage, FinalPage

(* A sequence whose last element is replaced.                              *)
LEMMA ReplaceTopProperties ==
    ASSUME NEW S, NEW s \in Seq(S), s # <<>>, NEW e \in S
    PROVE  LET t == Append(SubSeq(s, 1, Len(s) - 1), e)
           IN  /\ t \in Seq(S)
               /\ Len(t) = Len(s)
               /\ DOMAIN t = DOMAIN s
               /\ \A i \in 1..(Len(s) - 1) : t[i] = s[i]
               /\ t[Len(s)] = e
<1> DEFINE b == SubSeq(s, 1, Len(s) - 1)
<1>1. /\ b \in Seq(S) /\ Len(b) = Len(s) - 1 /\ DOMAIN s = 1..Len(s)
      /\ Len(s) \in Nat \ {0} /\ \A i \in 1..(Len(s) - 1) : b[i] = s[i]
  BY FrontProperties
<1> HIDE DEF b
<1>2. /\ Append(b, e) \in Seq(S)
      /\ Len(Append(b, e)) = Len(s)
      /\ DOMAIN Append(b, e) = DOMAIN s
      /\ \A i \in 1..(Len(s) - 1) : Append(b, e)[i] = s[i]
      /\ Append(b, e)[Len(s)] = e
  BY <1>1, AppendProperties
<1> QED
  BY <1>2 DEF b
=============================================================================
