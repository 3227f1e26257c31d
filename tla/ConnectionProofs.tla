-------------------------- MODULE ConnectionProofs --------------------------
(***************************************************************************)
(* Theorems about PersistentConnection.  Its four safety properties are    *)
(* inductive together, with their types and the states in which a token is *)
(* fetched.                                                                *)
(***************************************************************************)
EXTENDS PersistentConnection, SequenceTheorems, TLAPS

\* The latest fetch is running, or its result will be ignored: there is no
\* connection while it has not answered.
FetchingOffline ==
    fetching => WithAuth /\ connectionState \in {"Disconnected", "GettingToken"}

ConnectionInv ==
    /\ ConnectionTypeOK
    /\ FetchingOffline
    /\ RetriesFromDisconnected
    /\ SocketMatchesState
    /\ NeverStranded
    /\ InterruptedIsOffline

LEMMA ConnectionInitInv == ConnectionInit => ConnectionInv
<1> SUFFICES ASSUME ConnectionInit PROVE ConnectionInv
  OBVIOUS
<1>1. pendingAuths \in Seq(BOOLEAN) /\ Len(pendingAuths) =< MaxPendingAuths + 1
  BY ConnectionAssumption DEF ConnectionInit
<1>2. ConnectionTypeOK
  BY <1>1 DEF ConnectionInit, ConnectionTypeOK, ConnectionStates, Reasons
<1>3. FetchingOffline /\ RetriesFromDisconnected /\ SocketMatchesState
  BY DEF ConnectionInit, FetchingOffline, RetriesFromDisconnected, SocketMatchesState, connected
<1>4. NeverStranded /\ InterruptedIsOffline
  BY DEF ConnectionInit, NeverStranded, InterruptedIsOffline
<1> QED BY <1>2, <1>3, <1>4 DEF ConnectionInv

-----------------------------------------------------------------------------
(* What the handlers have in common.                                       *)

LEMMA OfflineNoAuths ==
    ASSUME ConnectionInv, ~connected
    PROVE  pendingAuths = <<>>
BY DEF ConnectionInv, SocketMatchesState

\* What Close establishes.
LEMMA CloseInv ==
    ASSUME ConnectionInv, NEW force \in BOOLEAN, interruptReasons' \in SUBSET Reasons,
           interruptReasons \subseteq interruptReasons',
           realtime # "none", Close(interruptReasons', force),
           UNCHANGED <<fetching, staleFetch>>, authToken' \in BOOLEAN, refused' \in BOOLEAN
    PROVE  ConnectionInv'
<1>1. connectionState' = "Disconnected" /\ realtime' = "none" /\ pendingAuths' = <<>>
  BY DEF Close
<1>2. connectionState # "Disconnected"
  BY DEF ConnectionInv, ConnectionTypeOK, SocketMatchesState, connected
<1>3. scheduledRetry = "none"
  BY <1>2 DEF ConnectionInv, RetriesFromDisconnected
<1>4. /\ scheduledRetry' \in {"none", "plain", "forced"}
      /\ forceAuthTokenRefresh' \in BOOLEAN
      /\ interruptReasons' = {} => scheduledRetry' # "none"
      /\ interruptReasons' # {} => scheduledRetry' = "none"
  BY <1>3 DEF Close, Reconnect
<1>5. pendingAuths' \in Seq(BOOLEAN) /\ Len(pendingAuths') =< MaxPendingAuths + 1
  BY <1>1, ConnectionAssumption
<1>6. ConnectionTypeOK'
  BY <1>1, <1>4, <1>5 DEF ConnectionInv, ConnectionTypeOK, ConnectionStates
<1>7. (FetchingOffline /\ RetriesFromDisconnected /\ SocketMatchesState)'
  BY <1>1 DEF ConnectionInv, FetchingOffline, RetriesFromDisconnected,
              SocketMatchesState, connected
<1>8. (NeverStranded /\ InterruptedIsOffline)'
  BY <1>1, <1>4 DEF NeverStranded, InterruptedIsOffline
<1> QED BY <1>6, <1>7, <1>8 DEF ConnectionInv

\* What Reconnect in state Disconnected establishes.
LEMMA ReconnectInv ==
    ASSUME ConnectionInv, interruptReasons' \in SUBSET Reasons,
           connectionState' = "Disconnected", realtime = "none",
           Reconnect(interruptReasons', forceAuthTokenRefresh),
           scheduledRetry = "none" \/ interruptReasons' \subseteq interruptReasons,
           UNCHANGED <<realtime, staleFetch, authToken, pendingAuths, refused>>,
           fetching' = fetching \/ fetching' = FALSE
    PROVE  ConnectionInv'
<1>1. ~connected
  BY DEF ConnectionInv, SocketMatchesState
<1>2. pendingAuths' = <<>>
  BY <1>1, OfflineNoAuths
<1>3. /\ scheduledRetry' \in {"none", "plain", "forced"}
      /\ forceAuthTokenRefresh' \in BOOLEAN
      /\ interruptReasons' = {} => scheduledRetry' # "none"
      /\ interruptReasons' # {} => scheduledRetry' = "none"
  <2>1. CASE interruptReasons' = {}
    BY <2>1 DEF Reconnect, ConnectionInv, ConnectionTypeOK
  <2>2. CASE interruptReasons' # {}
    BY <2>2 DEF Reconnect, ConnectionInv, ConnectionTypeOK, InterruptedIsOffline
  <2> QED BY <2>1, <2>2
<1>4. pendingAuths' \in Seq(BOOLEAN) /\ Len(pendingAuths') =< MaxPendingAuths + 1
  BY <1>2, ConnectionAssumption
<1>5. ConnectionTypeOK'
  BY <1>3, <1>4 DEF ConnectionInv, ConnectionTypeOK, ConnectionStates
<1>6. (FetchingOffline /\ RetriesFromDisconnected /\ SocketMatchesState)'
  BY <1>2 DEF ConnectionInv, FetchingOffline, RetriesFromDisconnected,
              SocketMatchesState, connected
<1>7. (NeverStranded /\ InterruptedIsOffline)'
  BY <1>2, <1>3 DEF NeverStranded, InterruptedIsOffline
<1> QED BY <1>5, <1>6, <1>7 DEF ConnectionInv

-----------------------------------------------------------------------------
(* One lemma for each kind of step.                                        *)

LEMMA InterruptInv ==
    ASSUME ConnectionInv, NEW reason \in Reasons, Interrupt(reason)
    PROVE  ConnectionInv'
<1>1. interruptReasons' = interruptReasons \union {reason} /\ interruptReasons' # {}
  BY DEF Interrupt
<1>2. interruptReasons' \in SUBSET Reasons /\ interruptReasons \subseteq interruptReasons'
  BY <1>1 DEF ConnectionInv, ConnectionTypeOK
<1>3. CASE realtime # "none"
  <2>1. Close(interruptReasons', forceAuthTokenRefresh)
    BY <1>3 DEF Interrupt
  <2>2. forceAuthTokenRefresh \in BOOLEAN /\ authToken' \in BOOLEAN /\ refused' \in BOOLEAN
        /\ UNCHANGED <<fetching, staleFetch>>
    BY DEF Interrupt, ConnectionInv, ConnectionTypeOK
  <2> QED BY <1>2, <1>3, <2>1, <2>2, CloseInv
<1>4. CASE realtime = "none"
  <2>1. pendingAuths = <<>>
    BY <1>4, OfflineNoAuths DEF ConnectionInv, SocketMatchesState
  <2>2. /\ connectionState' = "Disconnected" /\ scheduledRetry' = "none"
        /\ UNCHANGED <<realtime, pendingAuths, forceAuthTokenRefresh>>
        /\ UNCHANGED <<fetching, staleFetch, authToken, refused>>
    BY <1>4 DEF Interrupt
  <2>3. ConnectionTypeOK'
    BY <1>2, <2>2 DEF ConnectionInv, ConnectionTypeOK, ConnectionStates
  <2>4. (FetchingOffline /\ RetriesFromDisconnected /\ SocketMatchesState)'
    BY <1>4, <2>1, <2>2 DEF ConnectionInv, FetchingOffline, RetriesFromDisconnected,
                            SocketMatchesState, connected
  <2>5. (NeverStranded /\ InterruptedIsOffline)'
    BY <1>1, <1>4, <2>1, <2>2 DEF NeverStranded, InterruptedIsOffline
  <2> QED BY <2>3, <2>4, <2>5 DEF ConnectionInv
<1> QED BY <1>3, <1>4

LEMMA ResumeInv ==
    ASSUME ConnectionInv, NEW reason, Resume(reason)
    PROVE  ConnectionInv'
<1>1. interruptReasons' = interruptReasons \ {reason}
      /\ UNCHANGED <<connectionState, fetching, staleFetch, authToken, refused,
                     realtime, pendingAuths>>
  BY DEF Resume
<1>2. interruptReasons' \in SUBSET Reasons /\ interruptReasons' \subseteq interruptReasons
  BY <1>1 DEF ConnectionInv, ConnectionTypeOK
<1>3. CASE connectionState = "Disconnected"
  <2>1. Reconnect(interruptReasons', forceAuthTokenRefresh)
    BY <1>3 DEF Resume
  <2>2. realtime = "none"
    BY <1>3 DEF ConnectionInv, ConnectionTypeOK, SocketMatchesState, connected
  <2>3. connectionState' = "Disconnected" /\ fetching' = fetching
    BY <1>1, <1>3
  <2> QED BY <1>1, <1>2, <2>1, <2>2, <2>3, ReconnectInv
<1>4. CASE connectionState # "Disconnected"
  <2>1. UNCHANGED <<scheduledRetry, forceAuthTokenRefresh>>
    BY <1>4 DEF Resume
  <2>2. interruptReasons' = {}
    BY <1>2, <1>4 DEF ConnectionInv, InterruptedIsOffline
  <2>3. ConnectionTypeOK'
    BY <1>1, <1>2, <2>1 DEF ConnectionInv, ConnectionTypeOK
  <2>4. (FetchingOffline /\ RetriesFromDisconnected /\ SocketMatchesState)'
    BY <1>1, <2>1 DEF ConnectionInv, FetchingOffline, RetriesFromDisconnected,
                      SocketMatchesState, connected
  <2>5. (NeverStranded /\ InterruptedIsOffline)'
    BY <1>1, <1>4, <2>1, <2>2 DEF ConnectionInv, NeverStranded, InterruptedIsOffline
  <2> QED BY <2>3, <2>4, <2>5 DEF ConnectionInv
<1> QED BY <1>3, <1>4

LEMMA RefuseInv ==
    ASSUME ConnectionInv, Refuse, realtime # "none"
    PROVE  ConnectionInv'
<1>1. /\ UNCHANGED <<interruptReasons, fetching, staleFetch>>
      /\ authToken' = FALSE /\ refused' = TRUE
  BY DEF Refuse
<1>2. Close(interruptReasons', TRUE)
  BY <1>1 DEF Refuse, Close, Reconnect
<1> QED BY <1>1, <1>2, CloseInv DEF ConnectionInv, ConnectionTypeOK

LEMMA LostInv ==
    ASSUME ConnectionInv, ConnectionLost
    PROVE  ConnectionInv'
<1>1. UNCHANGED <<interruptReasons, fetching, staleFetch, authToken, refused>>
      /\ realtime # "none"
  BY DEF ConnectionLost
<1>2. Close(interruptReasons', forceAuthTokenRefresh)
  BY <1>1 DEF ConnectionLost, Close, Reconnect
<1> QED BY <1>1, <1>2, CloseInv DEF ConnectionInv, ConnectionTypeOK

LEMMA DisconnectingInv ==
    ASSUME ConnectionInv, Disconnecting
    PROVE  ConnectionInv'
<1>1. CASE AuthFailed
  <2>1. realtime # "none"
    BY <1>1 DEF AuthFailed, ConnectionInv, SocketMatchesState
  <2> QED BY <1>1, <2>1, RefuseInv DEF AuthFailed
<1>2. CASE AuthRevoked
  BY <1>2, RefuseInv DEF AuthRevoked
<1>3. CASE ConnectionLost
  BY <1>3, LostInv
<1>4. CASE ServerKill
  BY <1>4, InterruptInv DEF ServerKill, Reasons
<1>5. CASE GoOffline
  BY <1>5, InterruptInv DEF GoOffline, Reasons
<1> QED BY <1>1, <1>2, <1>3, <1>4, <1>5 DEF Disconnecting

LEMMA AppendBoolean ==
    ASSUME NEW s \in Seq(BOOLEAN), NEW b \in BOOLEAN, NEW t, t = Append(s, b)
    PROVE  /\ t \in Seq(BOOLEAN) /\ t # <<>> /\ Len(t) = Len(s) + 1
           /\ \A i \in 1 .. Len(s) : t[i] = s[i]
           /\ t[Len(s) + 1] = b
OBVIOUS

LEMMA RefreshInv ==
    ASSUME ConnectionInv, NEW token \in BOOLEAN, RefreshAuthToken(token)
    PROVE  ConnectionInv'
<1>1. /\ UNCHANGED <<connectionState, interruptReasons, scheduledRetry, fetching,
                     staleFetch, forceAuthTokenRefresh, realtime, refused>>
      /\ authToken' = token /\ Len(pendingAuths) < MaxPendingAuths
  BY DEF RefreshAuthToken
<1>2. CASE UNCHANGED pendingAuths
  BY <1>1, <1>2
     DEF ConnectionInv, ConnectionTypeOK, FetchingOffline, RetriesFromDisconnected,
         SocketMatchesState, NeverStranded, InterruptedIsOffline, connected
<1>3. CASE connected /\ pendingAuths' = Append(pendingAuths, FALSE)
  <2>1. pendingAuths \in Seq(BOOLEAN)
    BY DEF ConnectionInv, ConnectionTypeOK
  <2>a. pendingAuths' = Append(pendingAuths, FALSE)
    BY <1>3
  <2>b. /\ pendingAuths' \in Seq(BOOLEAN)
        /\ pendingAuths' # <<>>
        /\ Len(pendingAuths') = Len(pendingAuths) + 1
        /\ \A i \in 1 .. Len(pendingAuths) : pendingAuths'[i] = pendingAuths[i]
        /\ ~pendingAuths'[Len(pendingAuths) + 1]
    <3> DEFINE b == FALSE
    <3>1. b \in BOOLEAN /\ pendingAuths' = Append(pendingAuths, b)
      BY <2>a
    <3>2. ~b
      OBVIOUS
    <3> HIDE DEF b
    <3>3. /\ pendingAuths' \in Seq(BOOLEAN) /\ pendingAuths' # <<>>
          /\ Len(pendingAuths') = Len(pendingAuths) + 1
          /\ \A i \in 1 .. Len(pendingAuths) : pendingAuths'[i] = pendingAuths[i]
          /\ pendingAuths'[Len(pendingAuths) + 1] = b
      BY ONLY <2>1, <3>1, AppendBoolean
    <3> QED BY <3>2, <3>3
  <2>c. Len(pendingAuths) \in Nat
    BY <2>1
  <2>2. Len(pendingAuths') =< MaxPendingAuths + 1
    BY <1>1, <2>b, <2>c, ConnectionAssumption
  <2>3. ConnectionTypeOK'
    BY <1>1, <2>b, <2>2 DEF ConnectionInv, ConnectionTypeOK
  <2>4. (FetchingOffline /\ RetriesFromDisconnected /\ SocketMatchesState)'
    BY <1>1, <1>3 DEF ConnectionInv, FetchingOffline, RetriesFromDisconnected,
                      SocketMatchesState, connected
  <2>5. NeverStranded'
    <3>1. ASSUME connectionState = "Authenticating" PROVE pendingAuths'[1]
      <4>1. pendingAuths # <<>> /\ pendingAuths[1]
        BY <3>1 DEF ConnectionInv, NeverStranded
      <4> QED BY <4>1, <2>1, <2>b
    <3>2. ASSUME NEW i \in DOMAIN pendingAuths', pendingAuths'[i]
          PROVE  i = 1 /\ connectionState = "Authenticating"
      <4>1. i \in 1 .. Len(pendingAuths)
        BY <2>1, <2>b, <3>2
      <4>2. i \in DOMAIN pendingAuths /\ pendingAuths[i]
        BY <2>1, <2>b, <3>2, <4>1
      <4> QED BY <4>2 DEF ConnectionInv, NeverStranded
    <3> QED BY <1>1, <2>b, <3>1, <3>2 DEF ConnectionInv, NeverStranded
  <2>6. InterruptedIsOffline'
    BY <1>1 DEF ConnectionInv, InterruptedIsOffline
  <2> QED BY <2>3, <2>4, <2>5, <2>6 DEF ConnectionInv
<1> QED BY <1>2, <1>3 DEF RefreshAuthToken, SendAuth

LEMMA RetryInv ==
    ASSUME ConnectionInv, Retry
    PROVE  ConnectionInv'
<1>1. /\ connectionState = "Disconnected" /\ interruptReasons = {}
      /\ realtime = "none" /\ pendingAuths = <<>>
  BY DEF Retry, ConnectionInv, ConnectionTypeOK, RetriesFromDisconnected,
         InterruptedIsOffline, SocketMatchesState, connected
<1>2. scheduledRetry' = "none" /\ UNCHANGED <<interruptReasons, forceAuthTokenRefresh, pendingAuths>>
  BY DEF Retry
<1>3. CASE WithAuth
  <2>1. /\ connectionState' = "GettingToken" /\ fetching' = TRUE
        /\ UNCHANGED <<authToken, realtime>>
        /\ staleFetch' \in BOOLEAN /\ refused' \in BOOLEAN
    BY <1>3 DEF Retry, ConnectionInv, ConnectionTypeOK
  <2>2. ConnectionTypeOK'
    BY <1>2, <2>1 DEF ConnectionInv, ConnectionTypeOK, ConnectionStates
  <2> QED
    BY <1>1, <1>2, <1>3, <2>1, <2>2
       DEF ConnectionInv, FetchingOffline, RetriesFromDisconnected,
           SocketMatchesState, NeverStranded, InterruptedIsOffline, connected
<1>4. CASE ~WithAuth
  <2>1. /\ connectionState' = "Connecting" /\ realtime' = "connecting" /\ authToken' = FALSE
        /\ UNCHANGED <<fetching, staleFetch, refused>>
    BY <1>4 DEF Retry, OpenConnection
  <2>2. ConnectionTypeOK'
    BY <1>2, <2>1 DEF ConnectionInv, ConnectionTypeOK, ConnectionStates
  <2> QED
    BY <1>1, <1>2, <1>4, <2>1, <2>2
       DEF ConnectionInv, FetchingOffline, RetriesFromDisconnected,
           SocketMatchesState, NeverStranded, InterruptedIsOffline, connected
<1> QED BY <1>3, <1>4

LEMMA TokenFetchedInv ==
    ASSUME ConnectionInv, NEW token \in BOOLEAN, TokenFetched(token)
    PROVE  ConnectionInv'
<1>1. /\ fetching' = FALSE
      /\ UNCHANGED <<interruptReasons, scheduledRetry, staleFetch,
                     forceAuthTokenRefresh, pendingAuths, refused>>
  BY DEF TokenFetched
<1>2. CASE connectionState = "GettingToken"
  <2>1. connectionState' = "Connecting" /\ realtime' = "connecting" /\ authToken' = token
    BY <1>2 DEF TokenFetched, OpenConnection
  <2>2. ConnectionTypeOK'
    BY <1>1, <2>1 DEF ConnectionInv, ConnectionTypeOK, ConnectionStates
  <2> QED
    BY <1>1, <1>2, <2>1, <2>2
       DEF ConnectionInv, FetchingOffline, RetriesFromDisconnected,
           SocketMatchesState, NeverStranded, InterruptedIsOffline, connected
<1>3. CASE connectionState # "GettingToken"
  <2>1. UNCHANGED <<connectionState, realtime, authToken>>
    BY <1>3 DEF TokenFetched
  <2>2. ConnectionTypeOK'
    BY <1>1, <2>1 DEF ConnectionInv, ConnectionTypeOK
  <2> QED
    BY <1>1, <1>3, <2>1, <2>2
       DEF ConnectionInv, FetchingOffline, RetriesFromDisconnected,
           SocketMatchesState, NeverStranded, InterruptedIsOffline, connected
<1> QED BY <1>2, <1>3

LEMMA TokenFailedInv ==
    ASSUME ConnectionInv, TokenFailed
    PROVE  ConnectionInv'
<1>1. /\ fetching' = FALSE /\ connectionState' = "Disconnected"
      /\ UNCHANGED <<interruptReasons, staleFetch, authToken, realtime,
                     pendingAuths, refused>>
  BY DEF TokenFailed
<1>2. realtime = "none"
  BY DEF TokenFailed, ConnectionInv, ConnectionTypeOK, FetchingOffline,
         SocketMatchesState, connected
<1>3. Reconnect(interruptReasons', forceAuthTokenRefresh)
  BY <1>1 DEF TokenFailed, Reconnect
<1>4. interruptReasons' \in SUBSET Reasons /\ interruptReasons' \subseteq interruptReasons
  BY <1>1 DEF ConnectionInv, ConnectionTypeOK
<1> QED BY <1>1, <1>2, <1>3, <1>4, ReconnectInv

LEMMA ReachableInv ==
    ASSUME ConnectionInv, BecameReachable
    PROVE  ConnectionInv'
<1>1. /\ connectionState' = "Disconnected" /\ fetching' = fetching
      /\ UNCHANGED <<interruptReasons, staleFetch, authToken, realtime,
                     pendingAuths, refused>>
  BY DEF BecameReachable
<1>2. realtime = "none"
  BY DEF BecameReachable, ConnectionInv, ConnectionTypeOK, SocketMatchesState, connected
<1>3. Reconnect(interruptReasons', forceAuthTokenRefresh)
  BY <1>1 DEF BecameReachable, Reconnect
<1>4. interruptReasons' \in SUBSET Reasons /\ interruptReasons' \subseteq interruptReasons
  BY <1>1 DEF ConnectionInv, ConnectionTypeOK
<1> QED BY <1>1, <1>2, <1>3, <1>4, ReconnectInv

LEMMA StaleInv ==
    ASSUME ConnectionInv, StaleTokenFetched
    PROVE  ConnectionInv'
BY DEF StaleTokenFetched, tokenVars, ConnectionInv, ConnectionTypeOK,
       FetchingOffline, RetriesFromDisconnected, SocketMatchesState,
       NeverStranded, InterruptedIsOffline, connected

LEMMA QuietInv ==
    ASSUME ConnectionInv, Quiet
    PROVE  ConnectionInv'
BY ResumeInv, RetryInv, TokenFailedInv, StaleInv, ReachableInv, TokenFetchedInv, RefreshInv
   DEF Quiet, Open, GoOnline

LEMMA HandshakeInv ==
    ASSUME ConnectionInv, Handshake
    PROVE  ConnectionInv'
<1>1. /\ realtime = "connecting" /\ connectionState = "Connecting"
      /\ pendingAuths = <<>> /\ interruptReasons = {}
      /\ scheduledRetry = "none" /\ ~fetching
  BY DEF Handshake, ConnectionInv, SocketMatchesState, FetchingOffline,
         RetriesFromDisconnected, InterruptedIsOffline, connected
<1>2. /\ realtime' = "connected"
      /\ UNCHANGED <<interruptReasons, scheduledRetry, fetching, staleFetch,
                     authToken, forceAuthTokenRefresh, refused>>
  BY DEF Handshake, tokenVars
<1>3. CASE authToken
  <2>1. connectionState' = "Authenticating" /\ pendingAuths' = Append(<<>>, TRUE)
    BY <1>1, <1>3 DEF Handshake, SendAuth
  <2>a. /\ pendingAuths' \in Seq(BOOLEAN) /\ pendingAuths' # <<>>
        /\ Len(pendingAuths') = Len(<<>>) + 1
        /\ pendingAuths'[Len(<<>>) + 1] = TRUE
    <3>1. <<>> \in Seq(BOOLEAN)
      OBVIOUS
    <3> QED BY ONLY <2>1, <3>1, AppendBoolean
  <2>b. pendingAuths'[1] = TRUE /\ Len(pendingAuths') = 1
    BY <2>a
  <2>2. /\ pendingAuths' \in Seq(BOOLEAN) /\ Len(pendingAuths') =< MaxPendingAuths + 1
        /\ pendingAuths' # <<>> /\ DOMAIN pendingAuths' = {1} /\ pendingAuths'[1]
    BY <2>a, <2>b, ConnectionAssumption
  <2>3. ConnectionTypeOK'
    BY <1>2, <2>1, <2>2 DEF ConnectionInv, ConnectionTypeOK, ConnectionStates
  <2>4. (FetchingOffline /\ RetriesFromDisconnected /\ SocketMatchesState)'
    BY <1>1, <1>2, <2>1 DEF FetchingOffline, RetriesFromDisconnected,
                            SocketMatchesState, connected
  <2>5. (NeverStranded /\ InterruptedIsOffline)'
    BY <1>1, <1>2, <2>1, <2>2 DEF NeverStranded, InterruptedIsOffline
  <2> QED BY <2>3, <2>4, <2>5 DEF ConnectionInv
<1>4. CASE ~authToken
  <2>1. connectionState' = "Connected" /\ pendingAuths' = <<>>
    BY <1>1, <1>4 DEF Handshake
  <2>2. pendingAuths' \in Seq(BOOLEAN) /\ Len(pendingAuths') =< MaxPendingAuths + 1
    BY <2>1, ConnectionAssumption
  <2>3. ConnectionTypeOK'
    BY <1>2, <2>1, <2>2 DEF ConnectionInv, ConnectionTypeOK, ConnectionStates
  <2>4. (FetchingOffline /\ RetriesFromDisconnected /\ SocketMatchesState)'
    BY <1>1, <1>2, <2>1 DEF FetchingOffline, RetriesFromDisconnected,
                            SocketMatchesState, connected
  <2>5. (NeverStranded /\ InterruptedIsOffline)'
    BY <1>1, <1>2, <2>1 DEF NeverStranded, InterruptedIsOffline
  <2> QED BY <2>3, <2>4, <2>5 DEF ConnectionInv
<1> QED BY <1>3, <1>4

LEMMA AuthenticatedInv ==
    ASSUME ConnectionInv, Authenticated
    PROVE  ConnectionInv'
<1>1. /\ connected /\ realtime = "connected" /\ interruptReasons = {}
      /\ scheduledRetry = "none" /\ ~fetching
  BY DEF Authenticated, ConnectionInv, SocketMatchesState, FetchingOffline,
         RetriesFromDisconnected, InterruptedIsOffline, connected
<1>2. /\ connectionState' = "Connected" /\ pendingAuths' = Tail(pendingAuths)
      /\ UNCHANGED <<interruptReasons, scheduledRetry, fetching, staleFetch,
                     realtime, authToken, forceAuthTokenRefresh, refused>>
  BY DEF Authenticated, tokenVars
<1>3. pendingAuths \in Seq(BOOLEAN) /\ pendingAuths # <<>>
      /\ Len(pendingAuths) =< MaxPendingAuths + 1
  BY DEF Authenticated, ConnectionInv, ConnectionTypeOK
<1>4. /\ pendingAuths' \in Seq(BOOLEAN) /\ Len(pendingAuths') = Len(pendingAuths) - 1
      /\ \A i \in 1 .. Len(pendingAuths') : pendingAuths'[i] = pendingAuths[i + 1]
  BY <1>2, <1>3, HeadTailProperties
<1>5. Len(pendingAuths') =< MaxPendingAuths + 1
  BY <1>3, <1>4, ConnectionAssumption
<1>6. ConnectionTypeOK'
  BY <1>2, <1>4, <1>5 DEF ConnectionInv, ConnectionTypeOK, ConnectionStates
<1>7. (FetchingOffline /\ RetriesFromDisconnected /\ SocketMatchesState)'
  BY <1>1, <1>2 DEF FetchingOffline, RetriesFromDisconnected, SocketMatchesState, connected
<1>8. ASSUME NEW i \in DOMAIN pendingAuths', pendingAuths'[i] PROVE FALSE
  <2>1. i \in 1 .. Len(pendingAuths') /\ i + 1 \in DOMAIN pendingAuths /\ i + 1 # 1
    BY <1>3, <1>4, <1>8
  <2>2. pendingAuths[i + 1]
    BY <1>4, <1>8, <2>1
  <2> QED BY <2>1, <2>2 DEF ConnectionInv, NeverStranded
<1>9. (NeverStranded /\ InterruptedIsOffline)'
  BY <1>1, <1>2, <1>8 DEF NeverStranded, InterruptedIsOffline
<1> QED BY <1>6, <1>7, <1>9 DEF ConnectionInv

LEMMA RelaunchInv == Relaunch => ConnectionInv'
<1> SUFFICES ASSUME Relaunch PROVE ConnectionInv'
  OBVIOUS
<1>1. pendingAuths' \in Seq(BOOLEAN) /\ Len(pendingAuths') =< MaxPendingAuths + 1
  BY ConnectionAssumption DEF Relaunch
<1>2. ConnectionTypeOK'
  BY <1>1 DEF Relaunch, ConnectionTypeOK, ConnectionStates, Reasons
<1>3. (FetchingOffline /\ RetriesFromDisconnected /\ SocketMatchesState)'
  BY DEF Relaunch, FetchingOffline, RetriesFromDisconnected, SocketMatchesState, connected
<1>4. (NeverStranded /\ InterruptedIsOffline)'
  BY DEF Relaunch, NeverStranded, InterruptedIsOffline
<1> QED BY <1>2, <1>3, <1>4 DEF ConnectionInv

LEMMA ConnectionStepInv ==
    ASSUME ConnectionInv, [ConnectionNext]_connectionVars
    PROVE  ConnectionInv'
<1>1. CASE ConnectionNext
  BY <1>1, QuietInv, HandshakeInv, AuthenticatedInv, DisconnectingInv, RelaunchInv
     DEF ConnectionNext
<1>2. CASE UNCHANGED connectionVars
  BY <1>2 DEF connectionVars, ConnectionInv, ConnectionTypeOK, FetchingOffline,
              RetriesFromDisconnected, SocketMatchesState, NeverStranded,
              InterruptedIsOffline, connected
<1> QED BY <1>1, <1>2

LEMMA ConnectionInvariant == ConnectionSpec => []ConnectionInv
BY ConnectionInitInv, ConnectionStepInv, PTL DEF ConnectionSpec

-----------------------------------------------------------------------------
(***************************************************************************)
(* The connection's fields keep their types: auth requests do not pile up  *)
(* over reconnections.                                                     *)
(***************************************************************************)
THEOREM ConnectionTypes == ConnectionSpec => []ConnectionTypeOK
BY ConnectionInvariant, PTL DEF ConnectionInv

(***************************************************************************)
(* tryScheduleReconnect and the block it schedules find the connection     *)
(* disconnected, whatever comes in between.                                *)
(***************************************************************************)
THEOREM RetriesAreSafe == ConnectionSpec => []RetriesFromDisconnected
BY ConnectionInvariant, PTL DEF ConnectionInv

(***************************************************************************)
(* The FConnection is established exactly when the state says so: no       *)
(* request is sent on one that is not.                                     *)
(***************************************************************************)
THEOREM SocketAgrees == ConnectionSpec => []SocketMatchesState
BY ConnectionInvariant, PTL DEF ConnectionInv

(***************************************************************************)
(* Unless it is interrupted or up, something is on its way that moves the  *)
(* connection on.                                                          *)
(***************************************************************************)
THEOREM NoStranding == ConnectionSpec => []NeverStranded
BY ConnectionInvariant, PTL DEF ConnectionInv

(***************************************************************************)
(* An interrupted connection stays down, also when a token arrives late.   *)
(***************************************************************************)
THEOREM InterruptionHolds == ConnectionSpec => []InterruptedIsOffline
BY ConnectionInvariant, PTL DEF ConnectionInv

-----------------------------------------------------------------------------
(* A program without FirebaseAuth, such as the app.                        *)

\* No token, nothing to refuse, no state that handles one.
NoTokens ==
    /\ connectionState \notin {"GettingToken", "Authenticating"}
    /\ ~authToken /\ ~fetching /\ ~refused /\ ~forceAuthTokenRefresh
    /\ scheduledRetry # "forced"
    /\ pendingAuths = <<>>

LEMMA NoTokensStep ==
    ASSUME ~WithAuth, NoTokens, [ConnectionNext]_connectionVars
    PROVE  NoTokens'
<1>1. CASE UNCHANGED connectionVars
  BY <1>1 DEF connectionVars, NoTokens
<1>2. CASE Quiet
  <2>1. CASE Open \/ GoOnline
    BY <2>1 DEF Open, GoOnline, Resume, Reconnect, NoTokens
  <2>2. CASE Retry
    BY <2>2 DEF Retry, OpenConnection, NoTokens
  <2>3. CASE TokenFailed \/ StaleTokenFetched \/ BecameReachable
    BY <2>3 DEF TokenFailed, StaleTokenFetched, BecameReachable, Reconnect, NoTokens, tokenVars
  <2>4. ASSUME NEW token \in BOOLEAN, TokenFetched(token) \/ RefreshAuthToken(token)
        PROVE  FALSE
    BY <2>4 DEF TokenFetched, RefreshAuthToken, NoTokens
  <2> QED BY <1>2, <2>1, <2>2, <2>3, <2>4 DEF Quiet
<1>3. CASE Handshake \/ Authenticated
  BY <1>3 DEF Handshake, Authenticated, NoTokens, tokenVars
<1>4. CASE Disconnecting
  <2>1. ~AuthFailed /\ ~AuthRevoked
    BY DEF AuthFailed, AuthRevoked, NoTokens
  <2>2. ASSUME NEW reason, Interrupt(reason) PROVE NoTokens'
    <3>1. CASE realtime # "none"
      BY <2>2, <3>1 DEF Interrupt, Close, Reconnect, NoTokens
    <3>2. CASE realtime = "none"
      BY <2>2, <3>2 DEF Interrupt, NoTokens
    <3> QED BY <3>1, <3>2
  <2>3. CASE ConnectionLost
    BY <2>3 DEF ConnectionLost, Close, Reconnect, NoTokens
  <2> QED BY <1>4, <2>1, <2>2, <2>3 DEF Disconnecting, ServerKill, GoOffline
<1>5. CASE Relaunch
  BY <1>5 DEF Relaunch, NoTokens
<1> QED BY <1>1, <1>2, <1>3, <1>4, <1>5 DEF ConnectionNext

(***************************************************************************)
(* Without FirebaseAuth the connection never authenticates: it holds no    *)
(* token, sends no auth request and waits for no answer to one, and the    *)
(* handshake alone brings it up.  In particular none is refused.           *)
(***************************************************************************)
THEOREM NoTokensWithoutAuth == ConnectionSpec /\ ~WithAuth => []NoTokens
<1>1. ConnectionInit => NoTokens
  BY DEF ConnectionInit, NoTokens
<1>2. ASSUME ~WithAuth PROVE ConnectionSpec => []NoTokens
  <2>1. NoTokens /\ [ConnectionNext]_connectionVars => NoTokens'
    BY <1>2, NoTokensStep
  <2> QED BY <1>1, <2>1, PTL DEF ConnectionSpec
<1> QED BY <1>2

-----------------------------------------------------------------------------
(* Tokens that are refused.                                                *)

\* A scheduled retry finds nothing that could disturb it.
LEMMA ScheduledAlone ==
    ASSUME ConnectionInv, scheduledRetry # "none"
    PROVE  /\ connectionState = "Disconnected" /\ realtime = "none"
           /\ pendingAuths = <<>> /\ interruptReasons = {}
BY DEF ConnectionInv, ConnectionTypeOK, RetriesFromDisconnected, SocketMatchesState,
       InterruptedIsOffline, connected

\* A retry that is to fetch a new token is replaced by a plain one, or
\* cancelled, before it runs.
DropsForcedRetry ==
    scheduledRetry = "forced" /\ (BecameReachable \/ GoOnline \/ GoOffline)

\* While a refused token has not been replaced, the forced retry waits.
ForcedWaits == refused => scheduledRetry = "forced" /\ ~fetching

LEMMA RefuseWaits ==
    ASSUME ConnectionInv, Refuse, realtime # "none"
    PROVE  (ForcedWaits /\ RefusedTokenIsRefreshed)'
<1>1. interruptReasons = {} /\ ~fetching
  BY DEF ConnectionInv, ConnectionTypeOK, InterruptedIsOffline, FetchingOffline,
         SocketMatchesState, connected
<1>2. scheduledRetry' = "forced" /\ fetching' = fetching /\ connectionState' = "Disconnected"
  BY <1>1 DEF Refuse, Close, Reconnect
<1> QED BY <1>1, <1>2 DEF ForcedWaits, RefusedTokenIsRefreshed

LEMMA ForcedStep ==
    ASSUME WithAuth, ConnectionInv, ForcedWaits, ConnectionNext, ~DropsForcedRetry
    PROVE  (ForcedWaits /\ RefusedTokenIsRefreshed)'
<1>1. CASE AuthFailed \/ AuthRevoked
  <2>1. Refuse /\ realtime # "none"
    BY <1>1 DEF AuthFailed, AuthRevoked, ConnectionInv, SocketMatchesState
  <2> QED BY <2>1, RefuseWaits
<1>2. CASE Retry
  <2>1. ~refused'
    BY <1>2 DEF Retry, ForcedWaits
  <2> QED BY <2>1 DEF ForcedWaits, RefusedTokenIsRefreshed
<1>3. CASE Relaunch
  BY <1>3 DEF Relaunch, ForcedWaits, RefusedTokenIsRefreshed
<1>4. CASE ~refused /\ ~(AuthFailed \/ AuthRevoked)
  <2>1. ConnectionNext /\ ~Relaunch /\ ~Retry => refused' = refused
    BY <1>4 DEF ConnectionNext, Quiet, Disconnecting, Open, GoOnline, GoOffline, Resume,
           Interrupt, TokenFailed, StaleTokenFetched, BecameReachable, TokenFetched,
           RefreshAuthToken, Handshake, Authenticated, ConnectionLost, ServerKill, tokenVars
  <2> QED BY <1>2, <1>3, <1>4, <2>1 DEF ForcedWaits, RefusedTokenIsRefreshed
<1>5. CASE refused /\ ~(AuthFailed \/ AuthRevoked \/ Retry \/ Relaunch)
  <2>1. scheduledRetry = "forced" /\ ~fetching
    BY <1>5 DEF ForcedWaits
  <2>2. /\ connectionState = "Disconnected" /\ realtime = "none"
        /\ pendingAuths = <<>> /\ interruptReasons = {}
    BY <2>1, ScheduledAlone
  <2>3. ~(Open \/ TokenFailed \/ Handshake \/ Authenticated \/ ConnectionLost \/ ServerKill)
    BY <2>1, <2>2 DEF Open, TokenFailed, Handshake, Authenticated, ConnectionLost, ServerKill
  <2>4. ~(BecameReachable \/ GoOnline \/ GoOffline)
    BY <2>1 DEF DropsForcedRetry
  <2>5. \/ StaleTokenFetched
        \/ \E token \in BOOLEAN : TokenFetched(token) \/ RefreshAuthToken(token)
    BY <1>5, <2>3, <2>4 DEF ConnectionNext, Quiet, Disconnecting
  <2>6. UNCHANGED <<connectionState, scheduledRetry, fetching>>
    BY <2>1, <2>5 DEF StaleTokenFetched, TokenFetched, RefreshAuthToken
  <2> QED BY <2>1, <2>2, <2>6 DEF ForcedWaits, RefusedTokenIsRefreshed
<1> QED BY <1>1, <1>2, <1>3, <1>4, <1>5

(***************************************************************************)
(* The only way to fetch a token without the refresh a refused one calls   *)
(* for: reachability, the foreground, goOnline or goOffline replace or     *)
(* cancel the scheduled retry that had captured forceRefresh.  As long as  *)
(* none of them does, every token that follows a refused one is fresh.     *)
(***************************************************************************)
THEOREM RefreshUnlessRetryDropped ==
    ConnectionSpec /\ [][~DropsForcedRetry]_connectionVars => []RefusedTokenIsRefreshed
<1>1. ConnectionInit => ForcedWaits /\ RefusedTokenIsRefreshed
  BY DEF ConnectionInit, ForcedWaits, RefusedTokenIsRefreshed
<1>2. CASE WithAuth
  <2>1. ASSUME ConnectionInv, ForcedWaits, RefusedTokenIsRefreshed,
               [ConnectionNext]_connectionVars, [~DropsForcedRetry]_connectionVars
        PROVE  (ForcedWaits /\ RefusedTokenIsRefreshed)'
    <3>1. CASE ConnectionNext /\ ~DropsForcedRetry
      BY <1>2, <2>1, <3>1, ForcedStep
    <3>2. CASE UNCHANGED connectionVars
      BY <2>1, <3>2 DEF connectionVars, ForcedWaits, RefusedTokenIsRefreshed
    <3> QED BY <2>1, <3>1, <3>2
  <2> QED BY <1>1, <2>1, ConnectionInvariant, PTL DEF ConnectionSpec
<1>3. CASE ~WithAuth
  <2>1. NoTokens => RefusedTokenIsRefreshed
    BY DEF NoTokens, RefusedTokenIsRefreshed
  <2>2. ConnectionSpec => []NoTokens
    BY <1>3, NoTokensWithoutAuth
  <2> QED BY <2>1, <2>2, PTL
<1> QED BY <1>2, <1>3

-----------------------------------------------------------------------------
(* The order of the states.                                                *)

\* The states in the order of one attempt; a program without FirebaseAuth
\* skips GettingToken and every attempt without a token Authenticating.
NextStates ==
    [state \in ConnectionStates |->
        CASE state = "Disconnected"   -> {IF WithAuth THEN "GettingToken" ELSE "Connecting"}
          [] state = "GettingToken"   -> {"Connecting"}
          [] state = "Connecting"     -> {"Authenticating", "Connected"}
          [] state = "Authenticating" -> {"Connected"}
          [] state = "Connected"      -> {}]

AdvancesOrDisconnects ==
    connectionState' \in {connectionState, "Disconnected"} \union NextStates[connectionState]

LEMMA AttemptStep ==
    ASSUME ConnectionInv, [ConnectionNext]_connectionVars
    PROVE  AdvancesOrDisconnects
<1>t. connectionState \in ConnectionStates
  BY DEF ConnectionInv, ConnectionTypeOK
<1>1. CASE Retry
  <2>1. connectionState = "Disconnected"
    BY <1>1 DEF Retry, ConnectionInv, RetriesFromDisconnected
  <2>2. connectionState' = IF WithAuth THEN "GettingToken" ELSE "Connecting"
    BY <1>1 DEF Retry, OpenConnection
  <2> QED BY <1>t, <2>1, <2>2 DEF AdvancesOrDisconnects, NextStates
<1>2. ASSUME NEW token \in BOOLEAN, TokenFetched(token)
      PROVE  AdvancesOrDisconnects
  BY <1>t, <1>2 DEF TokenFetched, OpenConnection, AdvancesOrDisconnects, NextStates
<1>3. CASE Handshake
  <2>1. connectionState = "Connecting"
    BY <1>3 DEF Handshake, ConnectionInv, SocketMatchesState
  <2>2. connectionState' \in {"Authenticating", "Connected"}
    BY <1>3 DEF Handshake
  <2> QED BY <1>t, <2>1, <2>2 DEF AdvancesOrDisconnects, NextStates
<1>4. CASE Authenticated
  <2>1. connectionState \in {"Authenticating", "Connected"} /\ connectionState' = "Connected"
    BY <1>4 DEF Authenticated, ConnectionInv, SocketMatchesState, connected
  <2> QED BY <1>t, <2>1 DEF AdvancesOrDisconnects, NextStates
<1>5. CASE Disconnecting \/ Relaunch \/ TokenFailed
  BY <1>5 DEF Disconnecting, Relaunch, TokenFailed, AuthFailed, AuthRevoked, ConnectionLost,
              ServerKill, GoOffline, Refuse, Close, Interrupt, AdvancesOrDisconnects
<1>6. CASE \/ Open \/ GoOnline \/ StaleTokenFetched \/ BecameReachable
           \/ UNCHANGED connectionVars
           \/ \E token \in BOOLEAN : RefreshAuthToken(token)
  BY <1>6 DEF Open, GoOnline, Resume, StaleTokenFetched, BecameReachable, connectionVars,
              RefreshAuthToken, AdvancesOrDisconnects
<1> QED BY <1>1, <1>2, <1>3, <1>4, <1>5, <1>6 DEF ConnectionNext, Quiet

(***************************************************************************)
(* connectionState moves through an attempt in one order, state after      *)
(* state, and otherwise falls back to Disconnected: no callback of an      *)
(* earlier attempt, late token or late answer to an auth request makes it  *)
(* skip a state or return to one.                                          *)
(***************************************************************************)
THEOREM AttemptsGoInOrder ==
    ConnectionSpec => [][AdvancesOrDisconnects]_connectionVars
BY ConnectionInvariant, AttemptStep, PTL DEF ConnectionSpec
=============================================================================
