----------------------------- MODULE WriteQueue -----------------------------
(***************************************************************************)
(* setValue of the Firebase Realtime Database client, from the call to the *)
(* acknowledgement: FRepo and its FWriteTree, which keep the write as      *)
(* pending, the outstanding puts of FPersistentConnection, the requests on *)
(* the connection, and the server.  The connection itself is module        *)
(* PersistentConnection, whose actions this module extends by what they do *)
(* to the queue.                                                           *)
(*                                                                         *)
(* A write is known by its number: writeId and the index of its put, which *)
(* advance together.  It covers a set of leaves of the database, all       *)
(* overwritten by it.  Request numbers are counted from the handshake:     *)
(* they are only compared within a session.                                *)
(*                                                                         *)
(* External: the server and the socket.  Requests arrive in order, puts    *)
(* are answered in order, the answer to a listen takes as long as it takes *)
(* to read the data.  When a connection is lost the server may still read  *)
(* what is on the way, until it greets the next one.  Whether it refuses a *)
(* write depends on what the write covers (the security rules).            *)
(*                                                                         *)
(* Left out: transactions, merges, onDisconnect writes and the data that   *)
(* listens receive, none of which the app uses; persistence, which it does *)
(* not enable.                                                             *)
(***************************************************************************)
EXTENDS PersistentConnection, SequencesExt

CONSTANTS
    Leaves,        \* places in the database
    Footprints,    \* what a write may cover: sets of leaves
    Refused,       \* those of them the server refuses
    MaxWrites,     \* bound: writes
    MaxListens,    \* bound: listens registered (the app registers none)
    MayDie         \* the process may be killed

ASSUME QueueAssumption ==
    /\ Footprints \subseteq SUBSET Leaves
    /\ Refused \subseteq Footprints
    /\ MaxWrites \in Nat /\ MaxListens \in Nat
    /\ MayDie \in BOOLEAN

VARIABLES
    issued,            \* what each write so far covers
    allWrites,         \* FWriteTree: numbers of the pending writes
    outstandingPuts,   \* numbers of the puts not answered
    putsToAck,         \* answered puts that wait for listens, in order
    listened,          \* number of listens registered so far
    listens,           \* those still registered
    unackedListensCount,
    requestNumber,     \* requests sent in this session
    requestCBHash,     \* numbers of those whose callback waits
    uplink,            \* requests on the way to the server
    listening,         \* listen requests the server has not answered
    answers,           \* requests whose answer is on the way back
    record,            \* the write each leaf holds at the server
    settled,           \* history: writes whose answer has arrived
    completed,         \* history: writes whose completion was called, in order
    raised             \* an exception has ended the process

writeVars == <<issued, allWrites, outstandingPuts, putsToAck>>
listenVars == <<listened, listens, unackedListensCount>>
sessionVars == <<requestNumber, requestCBHash, listening, answers>>
outcomeVars == <<settled, completed, raised>>
queueVars == <<writeVars, listenVars, sessionVars, uplink, record, outcomeVars>>
vars == <<connectionVars, queueVars>>

Issued == DOMAIN issued

\* The leaves that write w covers, if the server accepts it.
Stores(w) == IF issued[w] \in Refused THEN {} ELSE issued[w]

Request == [rn : Nat, kind : {"put", "listen"}, id : Nat]

(***************************************************************************)
(* Type correctness of the queue, the requests and the server.             *)
(***************************************************************************)
TypeOK ==
    /\ ConnectionTypeOK
    /\ issued \in Seq(Footprints)
    /\ allWrites \in SUBSET Issued
    /\ outstandingPuts \in SUBSET Issued
    /\ putsToAck \in Seq(Issued)
    /\ listened \in Nat
    /\ listens \in SUBSET Nat
    /\ unackedListensCount \in Nat
    /\ requestNumber \in Nat
    /\ requestCBHash \in SUBSET Nat
    /\ uplink \in Seq(Request)
    /\ listening \in SUBSET Request
    /\ answers \in Seq(Request)
    /\ record \in [Leaves -> Nat]
    /\ settled \in SUBSET Issued
    /\ completed \in Seq(Issued)
    /\ raised \in BOOLEAN

Init ==
    /\ ConnectionInit
    /\ issued = <<>>
    /\ allWrites = {}
    /\ outstandingPuts = {}
    /\ putsToAck = <<>>
    /\ listened = 0
    /\ listens = {}
    /\ unackedListensCount = 0
    /\ requestNumber = 0
    /\ requestCBHash = {}
    /\ uplink = <<>>
    /\ listening = {}
    /\ answers = <<>>
    /\ record = [l \in Leaves |-> 0]
    /\ settled = {}
    /\ completed = <<>>
    /\ raised = FALSE

-----------------------------------------------------------------------------
(* What the handlers have in common.                                       *)

\* The requests of one kind for ids, numbered from n + 1 on.
Requests(n, kind, ids) ==
    [i \in 1 .. Len(ids) |-> [rn |-> n + i, kind |-> kind, id |-> ids[i]]]

\* sendAction for each of the requests reqs, after the n already sent.
Send(n, callbacks, wire, reqs) ==
    /\ requestNumber' = n + Len(reqs)
    /\ requestCBHash' = callbacks \union {reqs[i].rn : i \in DOMAIN reqs}
    /\ uplink' = wire \o reqs

\* Defective variant: the order of the dictionary.
InAnyOrder(S) == SetToSeqs(S)
\* The puts of a set in the order of their numbers.
InOrder(S) == {s \in SetToSeqs(S) : \A i, j \in DOMAIN s : i < j => s[i] < s[j]}

\* restoreState, in a session that has sent n requests: every listen, then
\* every outstanding put in order.
RestoreState(n, callbacks, wire) ==
    \E ls \in SetToSeqs(listens), ps \in InOrder(outstandingPuts) :
        /\ Send(n, callbacks, wire,
                Requests(n, "listen", ls) \o Requests(n + Len(ls), "put", ps))
        /\ unackedListensCount' = unackedListensCount + Len(ls)

\* Defective variant: the write stays pending.
CompleteStayingPending(ws) ==
    /\ completed' = completed \o ws
    /\ raised' = ~(ToSet(ws) \subseteq allWrites)
    /\ UNCHANGED allWrites
\* The callbacks of the puts ws run: FRepo's ackWrite removes each from the
\* pending writes, where it must be, and the completion is called.
Complete(ws) ==
    /\ allWrites' = allWrites \ ToSet(ws)
    /\ completed' = completed \o ws
    /\ raised' = ~(ToSet(ws) \subseteq allWrites)

\* Defective variant: what the last session's callbacks wait for still comes.
EndSessionKeepingCallbacks ==
    /\ unackedListensCount' = 0
    /\ requestNumber' = 0
    /\ listening' = {}
    /\ UNCHANGED <<requestCBHash, answers>>
\* What onDisconnect does beside closing: callbacks are dropped, and with the
\* FConnection the answers it would have delivered.
EndSession ==
    /\ requestCBHash' = {}
    /\ unackedListensCount' = 0
    /\ requestNumber' = 0
    /\ listening' = {}
    /\ answers' = <<>>

-----------------------------------------------------------------------------
(* API calls                                                               *)

\* Defective variant: the index of the put is not that of the write.
SetValueMisnumbered(footprint) ==
    LET w == Len(issued) + 1 IN
    /\ w =< MaxWrites
    /\ issued' = Append(issued, footprint)
    /\ allWrites' = allWrites \union {w}
    /\ outstandingPuts' = outstandingPuts \union {w + 1}
    /\ UNCHANGED <<connectionVars, putsToAck, listenVars, sessionVars, uplink,
                   record, outcomeVars>>
\* set: of FRepo and putInternal
SetValue(footprint) ==
    LET w == Len(issued) + 1 IN
    /\ w =< MaxWrites
    /\ issued' = Append(issued, footprint)
    /\ allWrites' = allWrites \union {w}
    /\ outstandingPuts' = outstandingPuts \union {w}
    /\ IF canSendWrites
       THEN Send(requestNumber, requestCBHash, uplink, Requests(requestNumber, "put", <<w>>))
       ELSE UNCHANGED <<requestNumber, requestCBHash, uplink>>
    /\ UNCHANGED <<connectionVars, putsToAck, listenVars, listening, answers,
                   record, outcomeVars>>

Listen ==
    LET l == listened + 1 IN
    /\ l =< MaxListens
    /\ listened' = l
    /\ listens' = listens \union {l}
    /\ IF connected
       THEN /\ Send(requestNumber, requestCBHash, uplink,
                    Requests(requestNumber, "listen", <<l>>))
            /\ unackedListensCount' = unackedListensCount + 1
       ELSE UNCHANGED <<requestNumber, requestCBHash, uplink, unackedListensCount>>
    /\ UNCHANGED <<connectionVars, writeVars, listening, answers, record, outcomeVars>>

\* unlisten; onListenRevoked does the same to a listen the server ends.
Unlisten(l) ==
    /\ l \in listens
    /\ listens' = listens \ {l}
    /\ UNCHANGED <<connectionVars, writeVars, listened, unackedListensCount,
                   sessionVars, uplink, record, outcomeVars>>

\* Defective variants: only the connection forgets the writes; it cancels the
\* puts but keeps them.
PurgeOutstandingPuts ==
    /\ MaySwitch
    /\ putsToAck = <<>>
    /\ \E ps \in InOrder(outstandingPuts) : completed' = completed \o ps
    /\ outstandingPuts' = {}
    /\ UNCHANGED <<connectionVars, issued, allWrites, putsToAck, listenVars,
                   sessionVars, uplink, record, settled, raised>>
PurgeKeepingPuts ==
    /\ MaySwitch
    /\ putsToAck = <<>>
    /\ \E ps \in InOrder(outstandingPuts) : completed' = completed \o ps
    /\ allWrites' = {}
    /\ UNCHANGED <<connectionVars, issued, outstandingPuts, putsToAck, listenVars,
                   sessionVars, uplink, record, settled, raised>>
\* purgeOutstandingWrites of FRepo, which forgets the pending writes, and of
\* the connection, which runs the callbacks of the parked puts and cancels the
\* others.  A parked put is acknowledged although its write is no longer there:
\* removeWriteId raises.
PurgeOutstandingWrites ==
    /\ MaySwitch
    /\ allWrites' = {}
    /\ IF putsToAck = <<>>
       THEN /\ \E ps \in InOrder(outstandingPuts) : completed' = completed \o ps
            /\ outstandingPuts' = {}
            /\ UNCHANGED raised
       ELSE /\ raised' = TRUE
            /\ UNCHANGED <<completed, outstandingPuts>>
    /\ UNCHANGED <<connectionVars, issued, putsToAck, listenVars, sessionVars,
                   uplink, record, settled>>

-----------------------------------------------------------------------------
(* The connection, with what its events do to the queue                    *)

ConnectionStep ==
    /\ Quiet
    /\ UNCHANGED queueVars

\* Defective variants: the state is not restored; it is restored again by
\* the answer to any auth request.
OnReadyWithoutRestore ==
    /\ Handshake
    /\ uplink' = <<>>
    /\ UNCHANGED <<writeVars, listenVars, sessionVars, record, outcomeVars>>
OnAuthenticatedAgain ==
    /\ Authenticated
    /\ RestoreState(requestNumber, requestCBHash, uplink)
    /\ UNCHANGED <<writeVars, listened, listens, listening, answers, record, outcomeVars>>

\* The server has done with the earlier session when it greets a new one.
OnReady ==
    /\ Handshake
    /\ IF connectionState' = "Connected"
       THEN RestoreState(0, {}, <<>>)
       ELSE /\ uplink' = <<>>
            /\ UNCHANGED <<requestNumber, requestCBHash, unackedListensCount>>
    /\ UNCHANGED <<writeVars, listened, listens, listening, answers, record, outcomeVars>>

OnAuthenticated ==
    /\ Authenticated
    /\ IF Head(pendingAuths)
       THEN RestoreState(requestNumber, requestCBHash, uplink)
       ELSE UNCHANGED <<requestNumber, requestCBHash, uplink, unackedListensCount>>
    /\ UNCHANGED <<writeVars, listened, listens, listening, answers, record, outcomeVars>>

OnDisconnect ==
    /\ Disconnecting
    /\ IF realtime # "none"
       THEN EndSession
       ELSE UNCHANGED <<sessionVars, unackedListensCount>>
    /\ UNCHANGED <<writeVars, listened, listens, uplink, record, outcomeVars>>

-----------------------------------------------------------------------------
(* Answers (onDataMessage)                                                 *)

Answered(kind) ==
    /\ answers # <<>>
    /\ Head(answers).kind = kind
    /\ Head(answers).rn \in requestCBHash
    /\ requestCBHash' = requestCBHash \ {Head(answers).rn}
    /\ answers' = Tail(answers)

\* Defective variants: the put stays outstanding; parked puts are
\* acknowledged and kept.
PutAnsweredStaying ==
    LET w == Head(answers).id IN
    /\ Answered("put")
    /\ settled' = settled \union {w}
    /\ Complete(<<w>>)
    /\ UNCHANGED <<connectionVars, issued, outstandingPuts, putsToAck, listenVars,
                   requestNumber, listening, uplink, record>>
ListenAnsweredKeepingPuts(ok) ==
    /\ Answered("listen")
    /\ unackedListensCount' = unackedListensCount - 1
    /\ Complete(putsToAck)
    /\ UNCHANGED <<connectionVars, issued, outstandingPuts, putsToAck, listened,
                   listens, requestNumber, listening, uplink, record, settled>>

\* The callback of sendPut: ok or refused, the put is done.
PutAnswered ==
    LET w == Head(answers).id IN
    /\ Answered("put")
    /\ outstandingPuts' = outstandingPuts \ {w}
    /\ \/ /\ w \in outstandingPuts
          /\ settled' = settled \union {w}
          /\ IF unackedListensCount = 0
             THEN Complete(<<w>>) /\ UNCHANGED putsToAck
             ELSE /\ putsToAck' = Append(putsToAck, w)
                  /\ UNCHANGED <<allWrites, completed, raised>>
       \/ /\ w \notin outstandingPuts
          /\ UNCHANGED <<allWrites, putsToAck, outcomeVars>>
    /\ UNCHANGED <<connectionVars, issued, listenVars, requestNumber, listening,
                   uplink, record>>

\* onResponse of sendListen, and ackPuts if it was the last awaited.
ListenAnswered(ok) ==
    /\ Answered("listen")
    /\ listens' = IF ok THEN listens ELSE listens \ {Head(answers).id}
    /\ unackedListensCount' = unackedListensCount - 1
    /\ IF unackedListensCount = 1
       THEN Complete(putsToAck) /\ putsToAck' = <<>>
       ELSE UNCHANGED <<allWrites, putsToAck, completed, raised>>
    /\ UNCHANGED <<connectionVars, issued, outstandingPuts, listened, requestNumber,
                   listening, uplink, record, settled>>

-----------------------------------------------------------------------------
(* The server                                                              *)

\* What record becomes when the server reads the put of write w.
Stored(w) == [l \in Leaves |-> IF l \in Stores(w) THEN w ELSE record[l]]

ReceivePut ==
    /\ uplink # <<>> /\ Head(uplink).kind = "put"
    /\ uplink' = Tail(uplink)
    /\ record' = Stored(Head(uplink).id)
    /\ answers' = IF realtime = "connected" THEN Append(answers, Head(uplink)) ELSE answers
    /\ UNCHANGED <<connectionVars, writeVars, listenVars, requestNumber,
                   requestCBHash, listening, outcomeVars>>

ReceiveListen ==
    /\ uplink # <<>> /\ Head(uplink).kind = "listen"
    /\ uplink' = Tail(uplink)
    /\ listening' = IF realtime = "connected" THEN listening \union {Head(uplink)}
                                              ELSE listening
    /\ UNCHANGED <<connectionVars, writeVars, listenVars, requestNumber,
                   requestCBHash, answers, record, outcomeVars>>

AnswerListen(m) ==
    /\ m \in listening
    /\ listening' = listening \ {m}
    /\ answers' = Append(answers, m)
    /\ UNCHANGED <<connectionVars, writeVars, listenVars, requestNumber,
                   requestCBHash, uplink, record, outcomeVars>>

Server == ReceivePut \/ ReceiveListen \/ \E m \in listening : AnswerListen(m)

-----------------------------------------------------------------------------
\* The process is killed, by the user, the system or the exception, and the
\* app started again.  Nothing of the queue is kept.
Restart ==
    /\ MayDie \/ raised
    /\ Relaunch
    /\ EndSession
    /\ allWrites' = {}
    /\ outstandingPuts' = {}
    /\ putsToAck' = <<>>
    /\ listens' = {}
    /\ raised' = FALSE
    /\ UNCHANGED <<issued, listened, uplink, record, settled, completed>>

Client ==
    \/ \E footprint \in Footprints : SetValue(footprint)
    \/ Listen
    \/ \E l \in listens : Unlisten(l)
    \/ PurgeOutstandingWrites
    \/ ConnectionStep \/ OnReady \/ OnAuthenticated \/ OnDisconnect
    \/ PutAnswered
    \/ \E ok \in BOOLEAN : ListenAnswered(ok)

Next == (~raised /\ Client) \/ Server \/ Restart

Spec == Init /\ [][Next]_vars
-----------------------------------------------------------------------------
(* Safety                                                                  *)

\* The last write that the server accepts for leaf l, 0 if there is none.
LastWrite(l) == Max({0} \union {w \in Issued : l \in Stores(w)})

(***************************************************************************)
(* What the server has acknowledged is never undone by an older write:     *)
(* however often the connection is lost and the outstanding puts are sent  *)
(* again, also over a restart of the app, every leaf of a settled write    *)
(* holds that write or a later one.                                        *)
(***************************************************************************)
SettledSurvives ==
    \A w \in settled : \A l \in Stores(w) : record[l] >= w

(***************************************************************************)
(* Once every write is settled the server holds the last one at each leaf, *)
(* although puts sent again may have brought older values back meanwhile.  *)
(***************************************************************************)
LastWriteWins ==
    settled = Issued => \A l \in Leaves : record[l] = LastWrite(l)

(***************************************************************************)
(* While writes can be sent, every outstanding put has been sent on this   *)
(* session, once: it is on its way to the server or its answer is on its   *)
(* way back.  A put made while the connection authenticates, is lost or    *)
(* comes back is neither forgotten nor sent twice.                         *)
(***************************************************************************)
SentOncePerSession ==
    LET wire == answers \o uplink IN
    canSendWrites =>
        /\ \A w \in outstandingPuts :
              \E i \in DOMAIN wire : wire[i].kind = "put" /\ wire[i].id = w
        /\ \A i, j \in DOMAIN wire :
              wire[i].kind = "put" /\ wire[j].kind = "put" /\ i < j
              => wire[i].id < wire[j].id

(***************************************************************************)
(* The completion of a write is called at most once, and not while its put *)
(* is outstanding: not again when an answer comes for a put that was sent  *)
(* twice, parked or purged.                                                *)
(***************************************************************************)
CompletedOnce ==
    LET done == completed \o putsToAck IN
    /\ \A i, j \in DOMAIN done : done[i] = done[j] => i = j
    /\ \A i \in DOMAIN done : done[i] \notin outstandingPuts

(***************************************************************************)
(* The local view and the connection agree on what is pending: a write     *)
(* covers server data in the app's own view exactly as long as its put is  *)
(* outstanding or parked.                                                  *)
(***************************************************************************)
PendingIsOutstanding ==
    ~raised => allWrites = outstandingPuts \union ToSet(putsToAck)

(***************************************************************************)
(* Without listens, as in the app, completions come in the order of the    *)
(* writes.                                                                 *)
(***************************************************************************)
CompletedInOrder ==
    MaxListens = 0 =>
        \A i, j \in DOMAIN completed : i < j => completed[i] < completed[j]

(***************************************************************************)
(* An acknowledged write is among the pending ones: the assertion          *)
(* "removeWriteId: called with nonexistent writeId" of FWriteTree.         *)
(***************************************************************************)
RemovesKnownWrites == ~raised

-----------------------------------------------------------------------------
(* Liveness                                                                *)

(***************************************************************************)
(* Beside the fairness of the connection: a session that comes up over and *)
(* over lasts, some time, until the next request is read or the next       *)
(* answer is handled.                                                      *)
(***************************************************************************)
Fairness ==
    /\ WF_vars(ConnectionStep /\ Open)
    /\ WF_vars(ConnectionStep /\ Retry)
    /\ SF_vars(ConnectionStep /\ \E token \in BOOLEAN : TokenFetched(token))
    /\ SF_vars(OnReady)
    /\ SF_vars(OnAuthenticated)
    /\ SF_vars(realtime = "connected" /\ Server)
    /\ SF_vars(PutAnswered)
    /\ SF_vars(\E ok \in BOOLEAN : ListenAnswered(ok))

FairSpec == Spec /\ Fairness

(***************************************************************************)
(* Every write is settled in the end, unless the connection is interrupted *)
(* or the process killed: none is forgotten over losses of the connection. *)
(***************************************************************************)
EveryWriteSettles ==
    \A w \in 1 .. MaxWrites :
        w \in outstandingPuts ~> w \notin outstandingPuts \/ interruptReasons # {}

(***************************************************************************)
(* The completion of a write the server has answered is called: it is "the *)
(* block to be called after the write has been committed".                 *)
(***************************************************************************)
EveryAnswerReported ==
    \A w \in 1 .. MaxWrites :
        w \in settled ~> w \in ToSet(completed) \/ interruptReasons # {}
=============================================================================
