-------------------------- MODULE QueueOutcomeProofs --------------------------
(***************************************************************************)
(* Theorems about what becomes of the writes of WriteQueue: what is said   *)
(* to the caller of setValue, and which configurations exclude the two     *)
(* defects that TLC finds in the client.                                   *)
(***************************************************************************)
EXTENDS WriteQueueProofs

-----------------------------------------------------------------------------
(* The queue on its connection.                                            *)

LEMMA ConnectionSteps ==
    ASSUME [Next]_vars
    PROVE  [ConnectionNext]_connectionVars
<1>1. CASE ConnectionStep \/ OnReady \/ OnAuthenticated \/ OnDisconnect \/ Restart
  BY <1>1 DEF ConnectionNext, ConnectionStep, OnReady, OnAuthenticated, OnDisconnect, Restart
<1>2. \/ UNCHANGED connectionVars
      \/ ConnectionStep \/ OnReady \/ OnAuthenticated \/ OnDisconnect \/ Restart
  BY DEF Next, Client, Server, SetValue, Listen, Unlisten, PurgeOutstandingWrites, PutAnswered,
         ListenAnswered, ReceivePut, ReceiveListen, AnswerListen, vars
<1> QED BY <1>1, <1>2

(***************************************************************************)
(* The connection under the write queue is that of PersistentConnection:   *)
(* what is proved of it holds whatever is written, and no write makes it   *)
(* take a step of another kind.                                            *)
(***************************************************************************)
THEOREM QueueRunsOnConnection == Spec => ConnectionSpec
<1>1. Init => ConnectionInit
  BY DEF Init
<1>2. [Next]_vars => [ConnectionNext]_connectionVars
  BY ConnectionSteps
<1> QED BY <1>1, <1>2, PTL DEF Spec, ConnectionSpec

\* No put is on its way, in either direction, before the token is accepted.
SilentUntilAuthenticated ==
    connectionState = "Authenticating" => Puts(answers) = {} /\ Puts(uplink) = {}

(***************************************************************************)
(* While the connection authenticates no write has been sent on it: not    *)
(* one that was outstanding, nor one made meanwhile.  Without FirebaseAuth *)
(* there is no such time.                                                  *)
(***************************************************************************)
THEOREM NoWriteBeforeAuth ==
    /\ Spec => []SilentUntilAuthenticated
    /\ Spec /\ ~WithAuth => []NoTokens
<1>1. QueueInv => SilentUntilAuthenticated
  BY DEF QueueInv, WireInv, Sent, SilentUntilAuthenticated
<1>2. Spec => []SilentUntilAuthenticated
  BY <1>1, QueueInvariant, PTL
<1>3. ASSUME ~WithAuth PROVE Spec => []NoTokens
  <2>1. ConnectionSpec => []NoTokens
    BY <1>3, NoTokensWithoutAuth
  <2> QED BY <2>1, QueueRunsOnConnection, PTL
<1> QED BY <1>2, <1>3

-----------------------------------------------------------------------------
(* The exception of FWriteTree.                                            *)

\* purgeOutstandingWrites while an answered put waits for listens.
PurgesParkedPut == PurgeOutstandingWrites /\ putsToAck # <<>>

LEMMA RaisesOnlyByPurge ==
    ASSUME QueueInv, ~raised, [Next]_vars, ~PurgesParkedPut
    PROVE  ~raised'
<1>1. allWrites = outstandingPuts \union ToSet(putsToAck)
  BY DEF QueueInv, CompletionInv, PendingIsOutstanding
<1>2. CASE PurgeOutstandingWrites
  BY <1>2 DEF PurgeOutstandingWrites, PurgesParkedPut
<1>3. CASE PutAnswered
  <2> DEFINE w == Head(answers).id
  <2>1. CASE w \in outstandingPuts
    <3>1. \/ raised' = ~(ToSet(<<w>>) \subseteq allWrites)
          \/ UNCHANGED raised
      BY <1>3, <2>1 DEF PutAnswered, Complete
    <3>2. ToSet(<<w>>) = {w}
      BY ToSetSmall
    <3> QED BY <1>1, <2>1, <3>1, <3>2
  <2>2. CASE w \notin outstandingPuts
    BY <1>3, <2>2 DEF PutAnswered, outcomeVars
  <2> QED BY <2>1, <2>2
<1>4. ASSUME NEW ok \in BOOLEAN, ListenAnswered(ok) PROVE ~raised'
  <2>1. \/ raised' = ~(ToSet(putsToAck) \subseteq allWrites)
        \/ UNCHANGED raised
    BY <1>4 DEF ListenAnswered, Complete
  <2> QED BY <1>1, <2>1
<1>5. CASE Restart
  BY <1>5 DEF Restart
<1>6. \/ PurgeOutstandingWrites \/ PutAnswered \/ Restart
      \/ \E ok \in BOOLEAN : ListenAnswered(ok)
      \/ UNCHANGED raised
  BY DEF Next, Client, Server, SetValue, Listen, Unlisten, ConnectionStep, OnReady,
         OnAuthenticated, OnDisconnect, ReceivePut, ReceiveListen, AnswerListen, vars,
         queueVars, outcomeVars
<1> QED BY <1>2, <1>3, <1>4, <1>5, <1>6

(***************************************************************************)
(* The counterexample of run purge is the only one: an acknowledged write  *)
(* is always among the pending ones unless purgeOutstandingWrites finds a  *)
(* put that was answered and is parked.                                    *)
(***************************************************************************)
THEOREM KnownUnlessPurgedParked ==
    Spec /\ [][~PurgesParkedPut]_vars => []RemovesKnownWrites
<1>1. Init => ~raised
  BY DEF Init
<1>2. QueueInv /\ ~raised /\ [Next]_vars /\ [~PurgesParkedPut]_vars => ~raised'
  BY RaisesOnlyByPurge DEF vars, queueVars, outcomeVars
<1>3. RemovesKnownWrites <=> ~raised
  BY DEF RemovesKnownWrites
<1> QED BY <1>1, <1>2, <1>3, QueueInvariant, PTL DEF Spec

(***************************************************************************)
(* A program that never purges writes, or one that registers no listen,    *)
(* and the app is both, never meets the exception of removeWriteId.        *)
(***************************************************************************)
THEOREM AppNeverRaises ==
    Spec /\ (~MaySwitch \/ MaxListens = 0) => []RemovesKnownWrites
<1>1. ASSUME ~MaySwitch \/ MaxListens = 0
      PROVE  NoListens => ~PurgesParkedPut
  BY <1>1 DEF PurgesParkedPut, PurgeOutstandingWrites, NoListens
<1>2. ASSUME ~MaySwitch \/ MaxListens = 0
      PROVE  Spec => []RemovesKnownWrites
  <2>1. NoListens /\ [Next]_vars => [~PurgesParkedPut]_vars
    BY <1>1, <1>2
  <2>2. Spec => [][~PurgesParkedPut]_vars
    BY <2>1, NoListensInvariant, PTL DEF Spec
  <2> QED BY <2>2, KnownUnlessPurgedParked, PTL
<1> QED BY <1>2

-----------------------------------------------------------------------------
(* What becomes of the writes.                                             *)

Parked == ToSet(putsToAck)
Completions == ToSet(completed)

\* What a step does to the writes issued, outstanding, parked, reported and
\* settled: nothing, or one of these.
Same == UNCHANGED <<Issued, outstandingPuts, Parked, Completions, settled>>
Issues ==
    \E w \in Issued' :
        /\ Below(Issued, {w})
        /\ Issued' = Issued \union {w}
        /\ outstandingPuts' = outstandingPuts \union {w}
        /\ UNCHANGED <<Parked, Completions, settled>>
Cancels ==
    /\ MaySwitch
    /\ outstandingPuts' = {}
    /\ Completions' = Completions \union outstandingPuts
    /\ UNCHANGED <<Issued, Parked, settled>>
Settles ==
    \E w \in outstandingPuts :
        /\ outstandingPuts' = outstandingPuts \ {w}
        /\ settled' = settled \union {w}
        /\ \/ Completions' = Completions \union {w} /\ UNCHANGED Parked
           \/ Parked' = Parked \union {w} /\ UNCHANGED Completions /\ unackedListensCount # 0
        /\ UNCHANGED Issued
Reports ==
    /\ Completions' = Completions \union Parked
    /\ Parked' = {}
    /\ UNCHANGED <<Issued, outstandingPuts, settled>>
Forgets ==
    /\ outstandingPuts' = {} /\ Parked' = {}
    /\ UNCHANGED <<Issued, Completions, settled>>

LEMMA IssueOutcome ==
    ASSUME QueueInv, NEW footprint \in Footprints, SetValue(footprint)
    PROVE  Issues
<1> DEFINE w == Len(issued) + 1
<1>1. w \in Issued' /\ Below(Issued, {w}) /\ Issued' = Issued \union {w}
  BY Issuing DEF SetValue, QueueInv, QueueTypes
<1>2. outstandingPuts' = outstandingPuts \union {w} /\ UNCHANGED <<putsToAck, completed, settled>>
  BY DEF SetValue, outcomeVars
<1> HIDE DEF w
<1> QED BY <1>1, <1>2 DEF Issues, Parked, Completions

LEMMA PurgeOutcome ==
    ASSUME QueueInv, PurgeOutstandingWrites
    PROVE  Same \/ Cancels
<1>1. UNCHANGED <<issued, putsToAck, settled>> /\ MaySwitch
  BY DEF PurgeOutstandingWrites
<1>2. CASE putsToAck = <<>>
  <2>1. PICK ps \in InOrder(outstandingPuts) : completed' = completed \o ps
    BY <1>2 DEF PurgeOutstandingWrites
  <2>2. ps \in Seq(outstandingPuts) /\ ToSet(ps) = outstandingPuts
    BY SeqOfSet, FiniteIssued DEF InOrder, QueueInv, QueueTypes
  <2>3. ps \in Seq(Issued) /\ completed \in Seq(Issued)
    BY <2>2, SeqMonotonic DEF QueueInv, QueueTypes, WriteTypes
  <2>4. Completions' = Completions \union outstandingPuts
    BY <2>1, <2>2, <2>3, ToSetConcat DEF Completions
  <2> QED BY <1>1, <1>2, <2>4 DEF PurgeOutstandingWrites, Cancels, Issued, Parked
<1>3. CASE putsToAck # <<>>
  BY <1>1, <1>3 DEF PurgeOutstandingWrites, Same, Issued, Parked, Completions
<1> QED BY <1>2, <1>3

LEMMA AnswerOutcome ==
    ASSUME QueueInv, PutAnswered
    PROVE  Same \/ Settles
<1> DEFINE w == Head(answers).id
<1>1. UNCHANGED issued /\ outstandingPuts' = outstandingPuts \ {w}
  BY DEF PutAnswered
<1>2. CASE w \in outstandingPuts
  <2> DEFINE t == <<w>>
  <2>1. settled' = settled \union {w}
        /\ \/ completed' = completed \o t /\ UNCHANGED putsToAck
           \/ putsToAck' = Append(putsToAck, w) /\ UNCHANGED completed /\ unackedListensCount # 0
    BY <1>2 DEF PutAnswered, Complete
  <2> HIDE DEF w
  <2>2. w \in Issued
    BY <1>2 DEF QueueInv, QueueTypes, WriteTypes
  <2>3. t \in Seq(Issued) /\ ToSet(t) = {w}
    BY <2>2, ToSetSmall
  <2> HIDE DEF t
  <2>4. completed \in Seq(Issued) /\ putsToAck \in Seq(Issued)
    BY DEF QueueInv, QueueTypes, WriteTypes
  <2>5. completed' = completed \o t => Completions' = Completions \union {w}
    BY <2>3, <2>4, ToSetConcat DEF Completions
  <2>6. putsToAck' = Append(putsToAck, w) => Parked' = Parked \union {w}
    <3> DEFINE u == putsToAck \o <<w>>
    <3>1. ToSet(u) = ToSet(putsToAck) \union {w}
      BY <2>2, <2>4, ToSetAppend
    <3>2. Append(putsToAck, w) = u
      BY <2>2, <2>4, AppendIsConcat
    <3> HIDE DEF u
    <3> QED BY <3>1, <3>2 DEF Parked
  <2>7. UNCHANGED Issued
    BY <1>1 DEF Issued
  <2> QED BY <1>1, <1>2, <2>1, <2>5, <2>6, <2>7 DEF Settles, Parked, Completions
<1>3. CASE w \notin outstandingPuts
  <2>1. UNCHANGED <<putsToAck, completed, settled>>
    BY <1>3 DEF PutAnswered, outcomeVars
  <2> QED BY <1>1, <1>3, <2>1 DEF Same, Issued, Parked, Completions
<1> QED BY <1>2, <1>3

LEMMA ListenOutcome ==
    ASSUME QueueInv, NEW ok \in BOOLEAN, ListenAnswered(ok)
    PROVE  Same \/ Reports
<1>1. UNCHANGED <<issued, outstandingPuts, settled>>
  BY DEF ListenAnswered
<1>2. \/ completed' = completed \o putsToAck /\ putsToAck' = <<>>
      \/ UNCHANGED <<putsToAck, completed>>
  BY DEF ListenAnswered, Complete
<1>3. completed \in Seq(Issued) /\ putsToAck \in Seq(Issued)
  BY DEF QueueInv, QueueTypes, WriteTypes
<1>4. completed' = completed \o putsToAck => Completions' = Completions \union Parked
  BY <1>3, ToSetConcat DEF Completions, Parked
<1>5. putsToAck' = <<>> => Parked' = {}
  BY ToSetSmall DEF Parked
<1> QED BY <1>1, <1>2, <1>4, <1>5 DEF Same, Reports, Issued, Parked, Completions

LEMMA Outcomes ==
    ASSUME QueueInv, [Next]_vars
    PROVE  Same \/ Issues \/ Cancels \/ Settles \/ Reports \/ (Forgets /\ Restart)
<1>1. ASSUME NEW footprint \in Footprints, SetValue(footprint) PROVE Issues
  BY <1>1, IssueOutcome
<1>2. CASE Restart
  <2>1. outstandingPuts' = {} /\ putsToAck' = <<>> /\ UNCHANGED <<issued, completed, settled>>
    BY <1>2 DEF Restart
  <2>2. Parked' = {}
    BY <2>1, ToSetSmall DEF Parked
  <2> QED BY <1>2, <2>1, <2>2 DEF Forgets, Issued, Completions
<1>3. CASE \/ Listen \/ \E l \in listens : Unlisten(l)
           \/ ConnectionStep \/ OnReady \/ OnAuthenticated \/ OnDisconnect \/ Server
           \/ UNCHANGED vars
  <2>1. UNCHANGED <<issued, outstandingPuts, putsToAck, completed, settled>>
    BY <1>3 DEF Listen, Unlisten, ConnectionStep, OnReady, OnAuthenticated, OnDisconnect, Server,
                ReceivePut, ReceiveListen, AnswerListen, vars, queueVars, writeVars, outcomeVars
  <2> QED BY <2>1 DEF Same, Issued, Parked, Completions
<1> QED BY <1>1, <1>2, <1>3, PurgeOutcome, AnswerOutcome, ListenOutcome DEF Next, Client

\* A write that was issued waits for its answer, waits to be reported or was
\* reported.
NothingForgotten == Issued = outstandingPuts \union Parked \union Completions

(***************************************************************************)
(* As long as the process lives no write is forgotten, over any number of  *)
(* lost connections and cancellations: the caller has been told, or the    *)
(* client still holds the write.  (That it holds it in one place only is   *)
(* CompletedOnce.)                                                         *)
(***************************************************************************)
THEOREM WritesAreAccountedFor == Spec /\ [][~Restart]_vars => []NothingForgotten
<1>1. Init => NothingForgotten
  <2> SUFFICES ASSUME Init PROVE NothingForgotten
    OBVIOUS
  <2>1. issued = <<>> /\ outstandingPuts = {} /\ putsToAck = <<>> /\ completed = <<>>
    BY DEF Init
  <2>2. Issued = {}
    BY <2>1 DEF Issued
  <2> QED BY <2>1, <2>2, ToSetSmall DEF NothingForgotten, Parked, Completions
<1>2. QueueInv /\ NothingForgotten /\ [Next]_vars /\ [~Restart]_vars => NothingForgotten'
  <2> SUFFICES ASSUME QueueInv, NothingForgotten, [Next]_vars, [~Restart]_vars
               PROVE  NothingForgotten'
    OBVIOUS
  <2>1. CASE UNCHANGED vars
    BY <2>1 DEF vars, queueVars, writeVars, outcomeVars, NothingForgotten, Issued, Parked, Completions
  <2>2. CASE Same
    BY <2>2 DEF Same, NothingForgotten
  <2>3. CASE Issues
    BY <2>3 DEF Issues, NothingForgotten
  <2>4. CASE Cancels
    BY <2>4 DEF Cancels, NothingForgotten
  <2>5. CASE Settles
    BY <2>5 DEF Settles, NothingForgotten
  <2>6. CASE Reports
    BY <2>6 DEF Reports, NothingForgotten
  <2> QED BY <2>1, <2>2, <2>3, <2>4, <2>5, <2>6, Outcomes
<1> QED BY <1>1, <1>2, QueueInvariant, PTL DEF Spec

(***************************************************************************)
(* Without listens, as in the app, every write the server has answered has *)
(* been reported, also over restarts: the counterexample of run report     *)
(* takes a listen.                                                         *)
(***************************************************************************)
THEOREM AnswersReportedWithoutListens ==
    Spec /\ MaxListens = 0 => [](settled \subseteq Completions)
<1> DEFINE I == settled \subseteq Completions
<1>1. Init => I
  BY DEF Init
<1>2. ASSUME MaxListens = 0 PROVE Spec => []I
  <2>1. QueueInv /\ NoListens /\ I /\ [Next]_vars => I'
    <3> SUFFICES ASSUME QueueInv, NoListens, I, [Next]_vars PROVE I'
      OBVIOUS
    <3>1. unackedListensCount = 0
      BY <1>2 DEF NoListens
    <3>2. CASE Settles
      BY <3>1, <3>2 DEF Settles
    <3>3. CASE Same \/ Issues \/ Cancels \/ Reports \/ Forgets
      BY <3>3 DEF Same, Issues, Cancels, Reports, Forgets
    <3> QED BY <3>2, <3>3, Outcomes
  <2> QED BY <1>1, <2>1, QueueInvariant, NoListensInvariant, PTL DEF Spec
<1> QED BY <1>2

(***************************************************************************)
(* A program that does not purge writes is told of a completion only when  *)
(* the server has answered the write.                                      *)
(***************************************************************************)
THEOREM OnlyAnswersReported ==
    Spec /\ ~MaySwitch => [](Completions \subseteq settled)
<1> DEFINE I == Completions \subseteq settled
<1>1. Init => I
  <2>1. Init => ToSet(completed) = {}
    BY ToSetSmall DEF Init
  <2> QED BY <2>1 DEF Completions
<1>2. ASSUME ~MaySwitch PROVE Spec => []I
  <2>1. QueueInv /\ I /\ [Next]_vars => I'
    <3> SUFFICES ASSUME QueueInv, I, [Next]_vars PROVE I'
      OBVIOUS
    <3>1. Parked \subseteq settled
      BY DEF QueueInv, CompletionInv, Parked
    <3>2. ~Cancels
      BY <1>2 DEF Cancels
    <3>3. CASE Same \/ Issues \/ Settles \/ Reports \/ Forgets
      BY <3>1, <3>3 DEF Same, Issues, Settles, Reports, Forgets
    <3> QED BY <3>2, <3>3, Outcomes
  <2> QED BY <1>1, <2>1, QueueInvariant, PTL DEF Spec
<1> QED BY <1>2

\* Whatever was written before a settled write is settled.
SettledWithoutGaps == \A w \in settled : 1 .. w \subseteq settled

(***************************************************************************)
(* In a program that does not purge writes, and while its process lives,   *)
(* the answers leave no gap: when the server has answered a write, of the  *)
(* final page say, it has answered all that were made before it.           *)
(***************************************************************************)
THEOREM EarlierWritesAreSettled ==
    Spec /\ ~MaySwitch /\ [][~Restart]_vars => []SettledWithoutGaps
<1> DEFINE I == Completions \subseteq settled
<1>1. QueueInv /\ NothingForgotten /\ I => SettledWithoutGaps
  <2> SUFFICES ASSUME QueueInv, NothingForgotten, I, NEW w \in settled, NEW v \in 1 .. w
               PROVE  v \in settled
    BY DEF SettledWithoutGaps
  <2>1. Issued = 1 .. Len(issued) /\ Len(issued) \in Nat
    BY LenProperties DEF Issued, QueueInv, QueueTypes, WriteTypes
  <2>2. w \in Issued
    BY DEF QueueInv, QueueTypes, WriteTypes
  <2>3. v \in Issued
    BY <2>1, <2>2
  <2>4. v \notin outstandingPuts
    <3>1. SUFFICES ASSUME v \in outstandingPuts PROVE FALSE
      OBVIOUS
    <3>2. w < v
      BY <3>1 DEF QueueInv, SettledInv, Below
    <3> QED BY <2>1, <2>2, <3>2
  <2>5. Parked \subseteq settled
    BY DEF QueueInv, CompletionInv, Parked
  <2> QED BY <2>3, <2>4, <2>5 DEF NothingForgotten
<1>2. ASSUME ~MaySwitch PROVE Spec => []I
  BY <1>2, OnlyAnswersReported
<1>3. ASSUME ~MaySwitch PROVE Spec /\ [][~Restart]_vars => []SettledWithoutGaps
  <2>1. Spec => []I
    BY <1>2, <1>3
  <2> HIDE DEF I
  <2> QED BY <1>1, <2>1, QueueInvariant, WritesAreAccountedFor, PTL
<1> QED BY <1>3

-----------------------------------------------------------------------------
(* What a step may never do.                                               *)

\* The server answers no write whose completion has already said that it was
\* cancelled.
CancelledStaysCancelled == settled' \cap (Completions \ settled) = {}

\* Completions are added at the end; no report and no answer is taken back.
OutcomesAreFinal ==
    /\ \E ws \in Seq(Issued') : completed' = completed \o ws
    /\ settled \subseteq settled'

\* A put sent again may bring back what a later one has replaced, but only as
\* long as that later one is not settled.
SettledIsNotReplaced ==
    \A l \in Leaves : record'[l] < record[l] => record[l] \notin settled

LEMMA FinalStep ==
    ASSUME QueueInv, QueueInv', [Next]_vars
    PROVE  OutcomesAreFinal
<1>1. settled \subseteq settled'
  BY Outcomes DEF Same, Issues, Cancels, Settles, Reports, Forgets
<1>2. completed' \in Seq(Issued') /\ completed \in Seq(Issued)
  BY DEF QueueInv, QueueTypes, WriteTypes
<1>3. CASE UNCHANGED completed
  <2> DEFINE t == <<>>
  <2>1. t \in Seq(Issued') /\ completed' = completed \o t
    BY <1>2, <1>3, EmptySeq, ConcatEmptySeq
  <2> HIDE DEF t
  <2> QED BY <1>1, <2>1 DEF OutcomesAreFinal
<1>4. ASSUME NEW ws \in Seq(Issued), completed' = completed \o ws, UNCHANGED issued
      PROVE  OutcomesAreFinal
  BY <1>1, <1>4 DEF OutcomesAreFinal, Issued
<1>5. CASE PurgeOutstandingWrites
  <2>1. UNCHANGED completed
        \/ \E ps \in InOrder(outstandingPuts) : completed' = completed \o ps
    BY <1>5 DEF PurgeOutstandingWrites
  <2>2. ASSUME NEW ps \in InOrder(outstandingPuts) PROVE ps \in Seq(Issued)
    <3>1. ps \in Seq(outstandingPuts)
      BY SeqOfSet, FiniteIssued DEF InOrder, QueueInv, QueueTypes
    <3> QED BY <3>1, SeqMonotonic DEF QueueInv, QueueTypes, WriteTypes
  <2>3. UNCHANGED issued
    BY <1>5 DEF PurgeOutstandingWrites
  <2> QED BY <1>3, <1>4, <2>1, <2>2, <2>3
<1>6. CASE PutAnswered
  <2> DEFINE w == Head(answers).id
             t == <<w>>
  <2>1. UNCHANGED completed \/ (w \in outstandingPuts /\ completed' = completed \o t)
    BY <1>6 DEF PutAnswered, Complete, outcomeVars
  <2>2. w \in outstandingPuts => t \in Seq(Issued)
    BY DEF QueueInv, QueueTypes, WriteTypes
  <2>3. UNCHANGED issued
    BY <1>6 DEF PutAnswered
  <2> HIDE DEF t
  <2> QED BY <1>3, <1>4, <2>1, <2>2, <2>3
<1>7. ASSUME NEW ok \in BOOLEAN, ListenAnswered(ok) PROVE OutcomesAreFinal
  <2>1. UNCHANGED completed \/ completed' = completed \o putsToAck
    BY <1>7 DEF ListenAnswered, Complete
  <2>2. putsToAck \in Seq(Issued) /\ UNCHANGED issued
    BY <1>7 DEF ListenAnswered, QueueInv, QueueTypes, WriteTypes
  <2> QED BY <1>3, <1>4, <2>1, <2>2
<1>8. \/ PurgeOutstandingWrites \/ PutAnswered \/ UNCHANGED completed
      \/ \E ok \in BOOLEAN : ListenAnswered(ok)
  BY DEF Next, Client, Server, SetValue, Listen, Unlisten, ConnectionStep, OnReady,
         OnAuthenticated, OnDisconnect, ReceivePut, ReceiveListen, AnswerListen, Restart, vars,
         queueVars, outcomeVars
<1> QED BY <1>3, <1>5, <1>6, <1>7, <1>8

LEMMA NotReplaced ==
    ASSUME QueueInv, QueueInv', [Next]_vars
    PROVE  SettledIsNotReplaced
<1> SUFFICES ASSUME NEW l \in Leaves, NEW w \in settled, record[l] = w
             PROVE  ~(record'[l] < w)
  BY DEF SettledIsNotReplaced
<1>1. w \in Nat /\ w \in Issued /\ record'[l] \in Nat
  BY FiniteIssued DEF QueueInv, QueueTypes, WriteTypes
<1>2. w # 0
  BY <1>1, LenProperties DEF Issued, QueueInv, QueueTypes, WriteTypes
<1>3. l \in Stores(w)
  BY <1>2 DEF QueueInv, SettledInv
<1>4. w \in settled'
  BY Outcomes DEF Same, Issues, Cancels, Settles, Reports, Forgets
<1>5. CASE UNCHANGED issued
  <2>1. l \in Stores(w)'
    BY <1>3, <1>5 DEF Stores
  <2>2. record'[l] >= w
    BY <1>4, <2>1 DEF QueueInv, SettledInv
  <2> QED BY <1>1, <2>2
<1>6. CASE UNCHANGED record
  BY <1>1, <1>6
<1>7. UNCHANGED issued \/ UNCHANGED record
  BY DEF Next, Client, Server, SetValue, Listen, Unlisten, PurgeOutstandingWrites, PutAnswered,
         ListenAnswered, ConnectionStep, OnReady, OnAuthenticated, OnDisconnect, ReceivePut,
         ReceiveListen, AnswerListen, Restart, vars, queueVars, writeVars
<1> QED BY <1>5, <1>6, <1>7

(***************************************************************************)
(* What the caller of setValue has been told stays true: completions are   *)
(* only added, a write reported as cancelled is never settled later by an  *)
(* answer that was on its way, and the server gives up the value of an     *)
(* acknowledged write for no older one.                                    *)
(***************************************************************************)
THEOREM ReportsStayTrue ==
    Spec => [][OutcomesAreFinal /\ CancelledStaysCancelled /\ SettledIsNotReplaced]_vars
<1>1. ASSUME QueueInv, [Next]_vars PROVE CancelledStaysCancelled
  <2>1. Completions \cap outstandingPuts = {}
    BY <1>1 DEF QueueInv, CompletionInv, Completions
  <2>2. CASE Settles
    BY <2>1, <2>2 DEF Settles, CancelledStaysCancelled
  <2>3. CASE Same \/ Issues \/ Cancels \/ Reports \/ Forgets
    BY <2>3 DEF Same, Issues, Cancels, Reports, Forgets, CancelledStaysCancelled
  <2> QED BY <1>1, <2>2, <2>3, Outcomes
<1>2. QueueInv /\ QueueInv' /\ [Next]_vars
      => OutcomesAreFinal /\ CancelledStaysCancelled /\ SettledIsNotReplaced
  BY <1>1, FinalStep, NotReplaced
<1> QED BY <1>2, QueueInvariant, PTL DEF Spec

-----------------------------------------------------------------------------
(* What SettledWrites says by itself.                                      *)

PromiseInv ==
    /\ issued \in Seq(Footprints)
    /\ record \in [Leaves -> Nat]
    /\ settled \in SUBSET Issued
    /\ completed \in Seq(Issued) /\ Distinct(completed)
    /\ SettledSurvives
    /\ \A l \in Leaves :
          record[l] = 0 \/ (record[l] \in Issued /\ l \in Stores(record[l]))

LEMMA PromiseIssued ==
    ASSUME PromiseInv
    PROVE  /\ Issued = 1 .. Len(issued) /\ Len(issued) \in Nat /\ IsFiniteSet(Issued)
           /\ \A w \in Issued : Stores(w) \subseteq Leaves
<1>1. Issued = 1 .. Len(issued) /\ Len(issued) \in Nat
  BY LenProperties DEF PromiseInv, Issued
<1>2. \A w \in Issued : issued[w] \in Footprints
  BY ElementOfSeq, LenProperties DEF PromiseInv, Issued
<1>3. IsFiniteSet(Issued)
  BY <1>1, FS_Interval
<1>4. \A w \in Issued : Stores(w) \subseteq Leaves
  BY <1>2, QueueAssumption DEF Stores
<1> QED BY <1>1, <1>3, <1>4

LEMMA PromiseIssue ==
    ASSUME PromiseInv, NEW footprint \in Footprints, Promise!Issue(footprint)
    PROVE  PromiseInv'
<1>1. issued' = Append(issued, footprint) /\ UNCHANGED <<record, settled, completed>>
  BY DEF Promise!Issue
<1>2. Issued = 1 .. Len(issued) /\ Len(issued) \in Nat
  BY PromiseIssued
<1>3. /\ issued' \in Seq(Footprints) /\ DOMAIN issued' = 1 .. Len(issued) + 1
      /\ \A w \in 1 .. Len(issued) : issued'[w] = issued[w]
  BY <1>1, AppendProperties, LenProperties DEF PromiseInv
<1>4. Issued \subseteq Issued' /\ \A w \in Issued : Stores(w)' = Stores(w)
  BY <1>2, <1>3 DEF Stores, Issued
<1>5. completed' \in Seq(Issued') /\ Distinct(completed')
  BY <1>1, <1>4, SeqMonotonic DEF PromiseInv
<1>6. SettledSurvives'
  BY <1>1, <1>4 DEF PromiseInv, SettledSurvives
<1>7. (\A l \in Leaves : record[l] = 0 \/ (record[l] \in Issued /\ l \in Stores(record[l])))'
  <2>1. ASSUME NEW l \in Leaves, NEW w, w = record[l], w # 0
        PROVE  w \in Issued' /\ l \in Stores(w)'
    BY <1>4, <2>1 DEF PromiseInv
  <2>2. ASSUME NEW l \in Leaves, record'[l] # 0
        PROVE  record'[l] \in Issued' /\ l \in Stores(record[l])'
    BY <1>1, <2>1, <2>2 DEF Stores
  <2> QED BY <2>2
<1>8. record' \in [Leaves -> Nat] /\ settled' \in SUBSET Issued'
  BY <1>1, <1>4 DEF PromiseInv
<1> QED BY <1>3, <1>5, <1>6, <1>7, <1>8 DEF PromiseInv

LEMMA PromiseApply ==
    ASSUME PromiseInv, NEW w \in Issued, Promise!Apply(w)
    PROVE  PromiseInv'
<1>1. /\ UNCHANGED <<issued, settled, completed>>
      /\ record' = [l \in Leaves |-> IF l \in Stores(w) THEN w ELSE record[l]]
      /\ \A s \in settled : s < w
  BY DEF Promise!Apply, Promise!Covers, Promise!Newer, Stores
<1>2. UNCHANGED Issued /\ \A x : UNCHANGED Stores(x)
  BY <1>1 DEF Issued, Stores
<1>3. w \in Nat /\ Issued \subseteq Nat /\ \A x \in Issued : Stores(x) \subseteq Leaves
  BY PromiseIssued
<1>4. /\ record' \in [Leaves -> Nat]
      /\ \A l \in Leaves : record'[l] = IF l \in Stores(w) THEN w ELSE record[l]
  BY <1>1, <1>3 DEF PromiseInv
<1>5. ASSUME NEW x \in settled, NEW l \in Stores(x) PROVE record'[l] >= x
  <2>1. x \in Nat /\ l \in Leaves /\ x < w /\ record[l] >= x
    BY <1>1, <1>3 DEF PromiseInv, SettledSurvives
  <2> QED BY <1>3, <1>4, <2>1
<1>6. SettledSurvives'
  BY <1>1, <1>2, <1>5 DEF SettledSurvives
<1>7. (\A l \in Leaves : record[l] = 0 \/ (record[l] \in Issued /\ l \in Stores(record[l])))'
  BY <1>2, <1>4 DEF PromiseInv
<1> QED BY <1>1, <1>2, <1>4, <1>6, <1>7 DEF PromiseInv

\* Completions that the abstract specification allows.
LEMMA PromiseReport ==
    ASSUME PromiseInv, NEW S \in SUBSET Issued, Promise!Report(S)
    PROVE  completed' \in Seq(Issued) /\ Distinct(completed')
<1>1. PICK ws \in Promise!SetToAllKPermutations(S \ Promise!ToSet(completed)) :
               completed' = completed \o ws
  BY DEF Promise!Report
<1>2. PICK T \in SUBSET (S \ ToSet(completed)) : ws \in SetToSeqs(T)
  BY SameOperators
<1>3. IsFiniteSet(T) /\ T \subseteq Issued
  BY PromiseIssued, FS_Subset
<1>4. ws \in Seq(T) /\ ToSet(ws) = T /\ Distinct(ws)
  BY <1>2, <1>3, SeqOfSet
<1>5. ws \in Seq(Issued) /\ completed \in Seq(Issued) /\ Distinct(completed)
  BY <1>3, <1>4, SeqMonotonic DEF PromiseInv
<1>6. ToSet(completed) \cap ToSet(ws) = {}
  BY <1>2, <1>4
<1>7. completed \o ws \in Seq(Issued)
  BY <1>5, ConcatProperties
<1> QED BY <1>1, <1>4, <1>5, <1>6, <1>7, ToSetConcat

LEMMA PromiseStep ==
    ASSUME PromiseInv, [Promise!Next]_(Promise!promiseVars)
    PROVE  PromiseInv'
<1>1. ASSUME NEW footprint \in Footprints, Promise!Issue(footprint) PROVE PromiseInv'
  BY <1>1, PromiseIssue
<1>2. ASSUME NEW w \in Issued, Promise!Apply(w) PROVE PromiseInv'
  BY <1>2, PromiseApply
<1>3. ASSUME UNCHANGED <<issued, record>>, settled \subseteq settled', settled' \in SUBSET Issued,
             \A w \in settled' \ settled : \A l \in Stores(w) : record[l] >= w,
             completed' \in Seq(Issued) /\ Distinct(completed')
      PROVE  PromiseInv'
  <2>1. UNCHANGED Issued /\ \A x : UNCHANGED Stores(x)
    BY <1>3 DEF Issued, Stores
  <2>2. SettledSurvives'
    BY <1>3, <2>1 DEF PromiseInv, SettledSurvives
  <2> QED BY <1>3, <2>1, <2>2 DEF PromiseInv
<1>4. ASSUME NEW w \in Issued, Promise!Settle(w) PROVE PromiseInv'
  <2>1. /\ UNCHANGED <<issued, record>> /\ settled' = settled \union {w}
        /\ Promise!Report({w}) /\ \A l \in Stores(w) : record[l] >= w
    BY <1>4 DEF Promise!Settle, Promise!Covers, Stores
  <2>2. completed' \in Seq(Issued) /\ Distinct(completed')
    BY <2>1, PromiseReport
  <2>3. settled' \in SUBSET Issued
    BY <2>1 DEF PromiseInv
  <2> QED BY <1>3, <2>1, <2>2, <2>3
<1>5. CASE Promise!Answer \/ Promise!Cancel
  <2>1. /\ UNCHANGED <<issued, record, settled>>
        /\ Promise!Report(settled) \/ Promise!Report(Issued \ settled)
    BY <1>5 DEF Promise!Answer, Promise!Cancel, Issued
  <2>2. settled \in SUBSET Issued /\ Issued \ settled \in SUBSET Issued
    BY DEF PromiseInv
  <2>3. completed' \in Seq(Issued) /\ Distinct(completed')
    <3>1. PICK S \in SUBSET Issued : Promise!Report(S)
      BY <2>1, <2>2
    <3> QED BY <3>1, PromiseReport
  <2> QED BY <1>3, <2>1, <2>2, <2>3
<1>6. CASE UNCHANGED Promise!promiseVars
  BY <1>6 DEF Promise!promiseVars, PromiseInv, SettledSurvives, Issued, Stores
<1> QED BY <1>1, <1>2, <1>4, <1>5, <1>6 DEF Promise!Next, Issued

(***************************************************************************)
(* SettledWrites alone says what a caller of setValue relies on: settled   *)
(* writes survive, when all are settled each leaf holds the last one, and  *)
(* no completion is called twice.  So the refinement carries these over to *)
(* any client that implements it.                                          *)
(***************************************************************************)
THEOREM PromiseSuffices ==
    ImplementsPromise => [](SettledSurvives /\ LastWriteWins /\ Distinct(completed))
<1>1. Promise!Init => PromiseInv
  <2> SUFFICES ASSUME Promise!Init PROVE PromiseInv
    OBVIOUS
  <2>1. issued = <<>> /\ record = [l \in Leaves |-> 0] /\ settled = {} /\ completed = <<>>
    BY DEF Promise!Init
  <2>2. issued \in Seq(Footprints) /\ completed \in Seq(Issued) /\ Distinct(completed)
    BY <2>1, EmptySeq, ToSetSmall
  <2> QED BY <2>1, <2>2 DEF PromiseInv, SettledSurvives
<1>2. PromiseInv /\ [Promise!Next]_(Promise!promiseVars) => PromiseInv'
  BY PromiseStep
<1>3. ASSUME PromiseInv, settled = Issued, NEW l \in Leaves
      PROVE  record[l] = LastWrite(l)
  <2> DEFINE S == {0} \union {w \in Issued : l \in Stores(w)}
  <2>1. S \subseteq Nat
    BY <1>3, PromiseIssued
  <2>2. record[l] \in S
    BY <1>3 DEF PromiseInv
  <2>3. \A x \in S : record[l] >= x
    <3>1. ASSUME NEW x \in Issued, l \in Stores(x) PROVE record[l] >= x
      BY <1>3, <3>1 DEF PromiseInv, SettledSurvives
    <3>2. record[l] >= 0
      BY <2>1, <2>2
    <3> QED BY <3>1, <3>2
  <2>4. LastWrite(l) = Max(S)
    BY DEF LastWrite
  <2> HIDE DEF S
  <2> QED BY <2>1, <2>2, <2>3, <2>4, GreatestIsMax
<1>4. PromiseInv => SettledSurvives /\ LastWriteWins /\ Distinct(completed)
  BY <1>3 DEF PromiseInv, LastWriteWins
<1> QED BY <1>1, <1>2, <1>4, PTL DEF ImplementsPromise, Promise!Spec

=============================================================================
