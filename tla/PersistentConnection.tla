------------------------ MODULE PersistentConnection ------------------------
(***************************************************************************)
(* The life of the connection of the Firebase Realtime Database client:    *)
(* FPersistentConnection with the FConnection it owns, the FIRRetryHelper  *)
(* that delays its attempts and the provider of auth tokens.  Everything   *)
(* runs on one serial dispatch queue; concurrency is the order in which    *)
(* timers, token callbacks, socket events, reachability callbacks and API  *)
(* calls reach that queue.                                                 *)
(*                                                                         *)
(* Left out: how long a retry is delayed (lastWasSuccess,                  *)
(* currentRetryDelay, the session time measured by onDisconnect),          *)
(* statistics and log messages.                                            *)
(***************************************************************************)
EXTENDS Naturals, Sequences

CONSTANTS
    WithAuth,         \* FirebaseAuth is linked; without it the token is nil
    MaySwitch,        \* the program calls goOffline, goOnline and purges
                      \* writes (the app does not)
    MaxPendingAuths   \* bound: auth requests waiting for an answer

ASSUME ConnectionAssumption ==
    /\ WithAuth \in BOOLEAN
    /\ MaySwitch \in BOOLEAN
    /\ MaxPendingAuths \in Nat

VARIABLES
    connectionState,
    interruptReasons,
    scheduledRetry,   \* retryHelper.scheduledRetry: none, or with the value
                      \* of forceRefresh its block has captured
    fetching,         \* the fetch of currentFetchTokenAttempt has not answered
    staleFetch,       \* some fetch of an earlier attempt has not answered
    authToken,        \* authToken # nil
    forceAuthTokenRefresh,
    realtime,         \* the FConnection: none, or its state
    pendingAuths,     \* auth callbacks in requestCBHash, oldest first:
                      \* restoreStateAfterComplete of each
    refused           \* history: a token was refused and no fetch forced since

connectionVars == <<connectionState, interruptReasons, scheduledRetry, fetching,
                    staleFetch, authToken, forceAuthTokenRefresh, realtime,
                    pendingAuths, refused>>

\* Whom only the token handling concerns.
tokenVars == <<authToken, forceAuthTokenRefresh, refused>>

ConnectionStates ==
    {"Disconnected", "GettingToken", "Connecting", "Authenticating", "Connected"}

Reasons == {"waiting_for_open", "repo_interrupt", "server_kill"}

(***************************************************************************)
(* Type correctness of the connection's fields.                            *)
(***************************************************************************)
ConnectionTypeOK ==
    /\ connectionState \in ConnectionStates
    /\ interruptReasons \in SUBSET Reasons
    /\ scheduledRetry \in {"none", "plain", "forced"}
    /\ fetching \in BOOLEAN
    /\ staleFetch \in BOOLEAN
    /\ authToken \in BOOLEAN
    /\ forceAuthTokenRefresh \in BOOLEAN
    /\ refused \in BOOLEAN
    /\ realtime \in {"none", "connecting", "connected"}
    /\ pendingAuths \in Seq(BOOLEAN)
    /\ Len(pendingAuths) =< MaxPendingAuths + 1

\* A new FPersistentConnection, interrupted until it is opened.
ConnectionInit ==
    /\ connectionState = "Disconnected"
    /\ interruptReasons = {"waiting_for_open"}
    /\ scheduledRetry = "none"
    /\ fetching = FALSE
    /\ staleFetch = FALSE
    /\ authToken = FALSE
    /\ forceAuthTokenRefresh = FALSE
    /\ refused = FALSE
    /\ realtime = "none"
    /\ pendingAuths = <<>>

connected == connectionState \in {"Authenticating", "Connected"}

\* Defective variant: a connection that authenticates takes writes.
canSendWritesEarly == connected
canSendWrites == connectionState = "Connected"

-----------------------------------------------------------------------------
(* What the handlers have in common.                                       *)

\* tryScheduleReconnect, called in state Disconnected with the reasons rs and
\* the flag force: a retry already scheduled is replaced.
Reconnect(rs, force) ==
    IF rs = {}
    THEN /\ scheduledRetry' = (IF force THEN "forced" ELSE "plain")
         /\ forceAuthTokenRefresh' = FALSE
    ELSE /\ UNCHANGED scheduledRetry
         /\ forceAuthTokenRefresh' = force

\* Defective variants: callbacks are kept; nothing is scheduled; the socket
\* stays open; a resume does not look at the state; a token comes late; a
\* failed fetch is not tried again.
CloseKeepingCallbacks(rs, force) ==
    /\ connectionState' = "Disconnected"
    /\ realtime' = "none"
    /\ Reconnect(rs, force)
    /\ UNCHANGED pendingAuths
CloseForGood(rs, force) ==
    /\ connectionState' = "Disconnected"
    /\ realtime' = "none"
    /\ pendingAuths' = <<>>
    /\ UNCHANGED <<scheduledRetry, forceAuthTokenRefresh>>
InterruptLeavingSocket(reason) ==
    /\ interruptReasons' = interruptReasons \union {reason}
    /\ connectionState' = "Disconnected"
    /\ scheduledRetry' = "none"
    /\ UNCHANGED <<realtime, pendingAuths, forceAuthTokenRefresh, fetching,
                   staleFetch, authToken, refused>>
ResumeAnywhere(reason) ==
    /\ interruptReasons' = interruptReasons \ {reason}
    /\ Reconnect(interruptReasons', forceAuthTokenRefresh)
    /\ UNCHANGED <<connectionState, fetching, staleFetch, authToken, refused,
                   realtime, pendingAuths>>
TokenFetchedLate(token) ==
    /\ fetching
    /\ fetching' = FALSE
    /\ connectionState' = "Connecting"
    /\ realtime' = "connecting"
    /\ authToken' = token
    /\ UNCHANGED <<interruptReasons, scheduledRetry, staleFetch,
                   forceAuthTokenRefresh, pendingAuths, refused>>
TokenFailedForGood ==
    /\ fetching
    /\ fetching' = FALSE
    /\ connectionState' = "Disconnected"
    /\ UNCHANGED <<interruptReasons, scheduledRetry, staleFetch, authToken,
                   forceAuthTokenRefresh, realtime, pendingAuths, refused>>

\* closeWithReason of the FConnection and the onDisconnect it calls.
Close(rs, force) ==
    /\ connectionState' = "Disconnected"
    /\ realtime' = "none"
    /\ pendingAuths' = <<>>
    /\ Reconnect(rs, force)

\* The server refuses the token: it is dropped, the next is to be a new one.
Refuse ==
    /\ authToken' = FALSE
    /\ refused' = TRUE
    /\ Close(interruptReasons, TRUE)
    /\ UNCHANGED <<interruptReasons, fetching, staleFetch>>

Interrupt(reason) ==
    /\ interruptReasons' = interruptReasons \union {reason}
    /\ IF realtime # "none"
       THEN Close(interruptReasons', forceAuthTokenRefresh)
       ELSE /\ connectionState' = "Disconnected"
            /\ scheduledRetry' = "none"
            /\ UNCHANGED <<realtime, pendingAuths, forceAuthTokenRefresh>>
    /\ UNCHANGED <<fetching, staleFetch, authToken, refused>>

Resume(reason) ==
    /\ interruptReasons' = interruptReasons \ {reason}
    /\ IF connectionState = "Disconnected"
       THEN Reconnect(interruptReasons', forceAuthTokenRefresh)
       ELSE UNCHANGED <<scheduledRetry, forceAuthTokenRefresh>>
    /\ UNCHANGED <<connectionState, fetching, staleFetch, authToken, refused,
                   realtime, pendingAuths>>

\* sendAuthAndRestoreStateAfterComplete
SendAuth(restore) == pendingAuths' = Append(pendingAuths, restore)

-----------------------------------------------------------------------------
(* API calls                                                               *)

\* deferredInit of the repo opens the connection once.
Open ==
    /\ "waiting_for_open" \in interruptReasons
    /\ Resume("waiting_for_open")

GoOffline == MaySwitch /\ Interrupt("repo_interrupt")

GoOnline == MaySwitch /\ Resume("repo_interrupt")

\* The listener for token changes (somebody signed in, or out).
RefreshAuthToken(token) ==
    /\ WithAuth
    /\ Len(pendingAuths) < MaxPendingAuths
    /\ authToken' = token
    /\ IF connected /\ token THEN SendAuth(FALSE) ELSE UNCHANGED pendingAuths
    /\ UNCHANGED <<connectionState, interruptReasons, scheduledRetry, fetching,
                   staleFetch, forceAuthTokenRefresh, realtime, refused>>

-----------------------------------------------------------------------------
(* Timer, token callbacks, reachability                                    *)

\* openNetworkConnectionWithToken
OpenConnection(token) ==
    /\ connectionState' = "Connecting"
    /\ realtime' = "connecting"
    /\ authToken' = token

\* The block given to retryHelper starts a token fetch.  Without FirebaseAuth
\* the provider calls back at once, with a nil token.
Retry ==
    /\ scheduledRetry # "none"
    /\ scheduledRetry' = "none"
    /\ IF WithAuth
       THEN /\ connectionState' = "GettingToken"
            /\ fetching' = TRUE
            /\ staleFetch' = (staleFetch \/ fetching)
            /\ refused' = (refused /\ scheduledRetry = "plain")
            /\ UNCHANGED <<authToken, realtime>>
       ELSE /\ OpenConnection(FALSE)
            /\ UNCHANGED <<fetching, staleFetch, refused>>
    /\ UNCHANGED <<interruptReasons, forceAuthTokenRefresh, pendingAuths>>

\* The callback of the latest fetch, with a token or with nil.
TokenFetched(token) ==
    /\ fetching
    /\ fetching' = FALSE
    /\ IF connectionState = "GettingToken"
       THEN OpenConnection(token)
       ELSE UNCHANGED <<connectionState, realtime, authToken>>
    /\ UNCHANGED <<interruptReasons, scheduledRetry, staleFetch,
                   forceAuthTokenRefresh, pendingAuths, refused>>

\* The callback of the latest fetch, with an error.
TokenFailed ==
    /\ fetching
    /\ fetching' = FALSE
    /\ connectionState' = "Disconnected"
    /\ Reconnect(interruptReasons, forceAuthTokenRefresh)
    /\ UNCHANGED <<interruptReasons, staleFetch, authToken, realtime,
                   pendingAuths, refused>>

\* The callback of an earlier fetch is ignored; more of them may be to come.
StaleTokenFetched ==
    /\ staleFetch
    /\ staleFetch' \in BOOLEAN
    /\ UNCHANGED <<connectionState, interruptReasons, scheduledRetry, fetching,
                   realtime, pendingAuths, tokenVars>>

\* reachabilityCallback (reachable) and enteringForeground.
BecameReachable ==
    /\ connectionState = "Disconnected"
    /\ Reconnect(interruptReasons, forceAuthTokenRefresh)
    /\ UNCHANGED <<connectionState, interruptReasons, fetching, staleFetch,
                   authToken, realtime, pendingAuths, refused>>

-----------------------------------------------------------------------------
(* Messages and events of the FConnection                                  *)

\* onHandshake, onReady and restoreAuth.
Handshake ==
    /\ realtime = "connecting"
    /\ realtime' = "connected"
    /\ IF authToken
       THEN /\ connectionState' = "Authenticating"
            /\ SendAuth(TRUE)
       ELSE /\ connectionState' = "Connected"
            /\ UNCHANGED pendingAuths
    /\ UNCHANGED <<interruptReasons, scheduledRetry, fetching, staleFetch, tokenVars>>

\* The answer to the oldest auth request.
Authenticated ==
    /\ pendingAuths # <<>>
    /\ connectionState' = "Connected"
    /\ pendingAuths' = Tail(pendingAuths)
    /\ UNCHANGED <<interruptReasons, scheduledRetry, fetching, staleFetch,
                   realtime, tokenVars>>

AuthFailed == pendingAuths # <<>> /\ Refuse

AuthRevoked == WithAuth /\ realtime = "connected" /\ authToken /\ Refuse

\* The socket closes, fails or times out, or the server resets the connection.
ConnectionLost ==
    /\ realtime # "none"
    /\ Close(interruptReasons, forceAuthTokenRefresh)
    /\ UNCHANGED <<interruptReasons, fetching, staleFetch, authToken, refused>>

\* onConnectionShutdownWithReason and onKill.
ServerKill ==
    /\ realtime # "none"
    /\ Interrupt("server_kill")

\* The process is killed and the app started again.
Relaunch ==
    /\ connectionState' = "Disconnected"
    /\ interruptReasons' = {"waiting_for_open"}
    /\ scheduledRetry' = "none"
    /\ fetching' = FALSE
    /\ staleFetch' = FALSE
    /\ authToken' = FALSE
    /\ forceAuthTokenRefresh' = FALSE
    /\ refused' = FALSE
    /\ realtime' = "none"
    /\ pendingAuths' = <<>>

Disconnecting == AuthFailed \/ AuthRevoked \/ ConnectionLost \/ ServerKill \/ GoOffline

\* The steps that leave the session, if there is one, as it is.
Quiet ==
    \/ Open \/ GoOnline \/ Retry \/ TokenFailed \/ StaleTokenFetched \/ BecameReachable
    \/ \E token \in BOOLEAN : TokenFetched(token) \/ RefreshAuthToken(token)

ConnectionNext == Quiet \/ Handshake \/ Authenticated \/ Disconnecting \/ Relaunch

ConnectionSpec == ConnectionInit /\ [][ConnectionNext]_connectionVars

(***************************************************************************)
(* The dispatch queue runs what is on it; a token fetch answers, with a    *)
(* token if it is tried over and over; so does the network: a connection   *)
(* attempted over and over succeeds some time.                             *)
(***************************************************************************)
ConnectionFairness ==
    /\ WF_connectionVars(Open)
    /\ WF_connectionVars(Retry)
    /\ SF_connectionVars(\E token \in BOOLEAN : TokenFetched(token))
    /\ SF_connectionVars(Handshake)
    /\ SF_connectionVars(Authenticated)

FairConnectionSpec == ConnectionSpec /\ ConnectionFairness
-----------------------------------------------------------------------------
(***************************************************************************)
(* A reconnection is only ever scheduled, and its block only ever runs, in *)
(* state Disconnected: the two assertions "Not in disconnected state" of   *)
(* tryScheduleReconnect, whatever interrupts, resumes and token results    *)
(* come between scheduling and running.                                    *)
(***************************************************************************)
RetriesFromDisconnected == scheduledRetry # "none" => connectionState = "Disconnected"

(***************************************************************************)
(* connectionState and the state of the FConnection go together: requests  *)
(* are only sent on an established connection (sendData raises an          *)
(* exception otherwise), and what waits for an answer waits on one.        *)
(***************************************************************************)
SocketMatchesState ==
    /\ realtime = "connecting" <=> connectionState = "Connecting"
    /\ realtime = "connected" <=> connected
    /\ pendingAuths # <<>> => connected

(***************************************************************************)
(* Short of Connected, something is on its way that will move the          *)
(* connection on, unless it is interrupted: a scheduled retry, the latest  *)
(* token fetch, or the auth request whose answer restores the state.  A    *)
(* session restores its state once: only the first auth request does.      *)
(***************************************************************************)
NeverStranded ==
    /\ connectionState = "Disconnected" /\ interruptReasons = {} => scheduledRetry # "none"
    /\ connectionState = "GettingToken" => fetching
    /\ connectionState = "Authenticating" => pendingAuths # <<>> /\ pendingAuths[1]
    /\ \A i \in DOMAIN pendingAuths :
          pendingAuths[i] => i = 1 /\ connectionState = "Authenticating"

(***************************************************************************)
(* While there is a reason to be interrupted there is no connection, none  *)
(* is attempted and none is scheduled; in particular a token that arrives  *)
(* after the interruption does not open one.                               *)
(***************************************************************************)
InterruptedIsOffline ==
    interruptReasons # {} =>
        connectionState = "Disconnected" /\ realtime = "none" /\ scheduledRetry = "none"

(***************************************************************************)
(* The connection comes up again and again, however often it is lost or a  *)
(* token is refused, unless it is interrupted (which a kill by the server  *)
(* does for the rest of the process).                                      *)
(***************************************************************************)
ComesUp == []<>(connectionState = "Connected" \/ interruptReasons # {})

(***************************************************************************)
(* After the server has refused a token, the next one is fetched with a    *)
(* forced refresh: "we will refresh the token later on reconnect".         *)
(***************************************************************************)
RefusedTokenIsRefreshed == connectionState = "GettingToken" => ~refused
=============================================================================
