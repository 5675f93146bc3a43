------------------------------ MODULE OAuthPopup ----------------------------
(***************************************************************************)
(* Login by OAuth: requestToken and the redirect handler of OAuthServer    *)
(* (pkg/api/googlecloud/oauth/oauthserver.go), the popup that asks the     *)
(* user (PopupManager, pkg/server/popup/types.go), and the page that       *)
(* watches it (WatchPopup, popup-manager-impl.ts).                         *)
(*                                                                         *)
(* Requests are numbered in the order of their calls, which do not overlap *)
(* (ReuseTokenSource); the number stands for the state code and for the ID *)
(* of the popup.  The page opens a login window and has no answer to send, *)
(* so Validate and Answer are left out, and so are the contents of tokens  *)
(* and errors.                                                             *)
(***************************************************************************)
EXTENDS Naturals, Sequences

CONSTANTS
  MaxRequests,
  MaxRedirects,  \* redirects from the OAuth provider
  Capacity       \* events a subscriber's channel holds

VARIABLES
  phase,       \* phase[r]: where requestToken is
  answered,    \* answered[r]: the redirect it took, 0 for none
  popup,       \* popup[r]: where its goroutine is, in ShowPopup
  current,     \* the popup currentProto, currentForm and popupWaiter are of, or 0
  dismissing,  \* the ID GetCurrentPopup returned to the deferred function
  codes,       \* oauthStateCodes
  login,       \* login[h]: where the h-th redirect handler is
  of,          \* of[h]: the request whose URL was opened
  inbox,       \* the channel the page is subscribed with
  screen,      \* the popup the page shows, 0 for none
  windows      \* those it opened a login window for

requestVars == <<phase, answered, dismissing>>
popupVars == <<popup, current, inbox>>
loginVars == <<login, of>>
pageVars == <<screen, windows>>
vars == <<requestVars, popupVars, codes, loginVars, pageVars>>

Request == 1 .. MaxRequests
Redirect == 1 .. MaxRedirects

TypeOK ==
  /\ phase \in [Request -> {"none", "waiting", "returning", "dismissing", "done"}]
  /\ answered \in [Request -> {0} \cup Redirect]
  /\ popup \in [Request -> {"none", "pending", "shown", "closed", "over"}]
  /\ current \in {0} \cup Request /\ dismissing \in {0} \cup Request
  /\ codes \subseteq Request
  /\ login \in [Redirect -> {"none", "exchanging", "token", "error", "accepted", "refused"}]
  /\ of \in [Redirect -> {0} \cup Request]
  /\ inbox \in Seq({0} \cup Request) /\ Len(inbox) <= Capacity
  /\ screen \in {0} \cup Request /\ windows \subseteq Request

Init ==
  /\ phase = [r \in Request |-> "none"] /\ answered = [r \in Request |-> 0]
  /\ popup = [r \in Request |-> "none"]
  /\ current = 0 /\ dismissing = 0
  /\ codes = {}
  /\ login = [h \in Redirect |-> "none"] /\ of = [h \in Redirect |-> 0]
  /\ inbox = <<0>> /\ screen = 0 /\ windows = {}

-----------------------------------------------------------------------------
(* PopupManager.                                                           *)

\* broadcastLocked: a channel that is full misses the event.
Broadcast(p) == inbox' = IF Len(inbox) < Capacity THEN Append(inbox, p) ELSE inbox

\* showPopupMu is held from here until ShowPopup returns.
ShowPopup(r) ==
  /\ popup[r] = "pending" /\ \A q \in Request : popup[q] \notin {"shown", "closed"}
  /\ popup' = [popup EXCEPT ![r] = "shown"]
  /\ current' = r
  /\ Broadcast(r)
  /\ UNCHANGED <<requestVars, codes, loginVars, pageVars>>

ShowPopupReturns(r) ==
  /\ popup[r] = "closed"
  /\ popup' = [popup EXCEPT ![r] = "over"]
  /\ UNCHANGED <<requestVars, current, inbox, codes, loginVars, pageVars>>

DismissActivePopup(p) ==
  \/ /\ current = p
     /\ popup' = [popup EXCEPT ![p] = "closed"]
     /\ current' = 0
     /\ Broadcast(0)
  \/ current # p /\ UNCHANGED popupVars

-----------------------------------------------------------------------------
(* requestToken.                                                           *)

\* Mutant of InTurn: a request does not wait for the deferred call of the last one.
InTurnOnceAnswered(r) == \A q \in 1 .. r - 1 : phase[q] \notin {"none", "waiting"}

\* The mutex of ReuseTokenSource.
InTurn(r) == \A q \in 1 .. r - 1 : phase[q] = "done"

\* Up to the select; the goroutine with the popup is started.
RequestToken(r) ==
  /\ phase[r] = "none" /\ InTurn(r)
  /\ codes' = codes \cup {r}
  /\ phase' = [phase EXCEPT ![r] = "waiting"]
  /\ popup' = [popup EXCEPT ![r] = "pending"]
  /\ UNCHANGED <<answered, dismissing, current, inbox, loginVars, pageVars>>

\* The select meets a handler that sends on resolvedToken or tokenResolutionError,
\* whichever request that handler is for; neither channel has a buffer.
Resolve(r, h) ==
  /\ phase[r] = "waiting" /\ login[h] \in {"token", "error"}
  /\ phase' = [phase EXCEPT ![r] = "returning"]
  /\ answered' = [answered EXCEPT ![r] = h]
  /\ login' = [login EXCEPT ![h] = IF @ = "token" THEN "accepted" ELSE "refused"]
  /\ UNCHANGED <<dismissing, popupVars, codes, of, pageVars>>

TimedOut(r) ==
  /\ phase[r] = "waiting"
  /\ phase' = [phase EXCEPT ![r] = "returning"]
  /\ UNCHANGED <<answered, dismissing, popupVars, codes, loginVars, pageVars>>

\* The deferred function: whichever popup is there ...
GetCurrentPopup(r) ==
  /\ phase[r] = "returning"
  /\ phase' = [phase EXCEPT ![r] = IF current = 0 THEN "done" ELSE "dismissing"]
  /\ dismissing' = current
  /\ UNCHANGED <<answered, popupVars, codes, loginVars, pageVars>>

\* ... is dismissed, if it still is.
Dismiss(r) ==
  /\ phase[r] = "dismissing"
  /\ phase' = [phase EXCEPT ![r] = "done"]
  /\ dismissing' = 0
  /\ DismissActivePopup(dismissing)
  /\ UNCHANGED <<answered, codes, loginVars, pageVars>>

-----------------------------------------------------------------------------
(* The page, the user and the provider.                                    *)

Receive ==
  /\ inbox # <<>>
  /\ screen' = Head(inbox) /\ inbox' = Tail(inbox)
  /\ windows' = windows \cup ({screen'} \ {0})
  /\ UNCHANGED <<requestVars, popup, current, codes, loginVars>>

\* Mutant of Reconnect: a new subscriber is not told what is shown.
ReconnectOnly ==
  /\ inbox # <<>> /\ inbox' = <<>>
  /\ UNCHANGED <<requestVars, popup, current, codes, loginVars, pageVars>>

\* The stream ends after 30 seconds or breaks, and what is in the channel is lost; the
\* page subscribes again, and finds what is shown.
Reconnect ==
  /\ inbox' = <<current>>
  /\ UNCHANGED <<requestVars, popup, current, codes, loginVars, pageVars>>

NextHandler(h) == login[h] = "none" /\ \A g \in 1 .. h - 1 : login[g] # "none"

\* The user logs in, perhaps again and late, or refuses to.
UserIsRedirected(h) ==
  /\ NextHandler(h)
  /\ \E r \in windows :
       /\ of' = [of EXCEPT ![h] = r]
       /\ \/ /\ r \in codes
             /\ codes' = codes \ {r}
             /\ login' = [login EXCEPT ![h] = "exchanging"]
          \/ login' = [login EXCEPT ![h] = "error"] /\ UNCHANGED codes
  /\ UNCHANGED <<requestVars, popupVars, pageVars>>

Exchange(h) ==
  /\ login[h] = "exchanging"
  /\ \E outcome \in {"token", "error"} : login' = [login EXCEPT ![h] = outcome]
  /\ UNCHANGED <<requestVars, popupVars, codes, of, pageVars>>

Showing(r) == ShowPopup(r) \/ ShowPopupReturns(r)
Leaving(r) == GetCurrentPopup(r) \/ Dismiss(r)

Next ==
  \/ \E r \in Request : \/ RequestToken(r) \/ TimedOut(r) \/ Leaving(r) \/ Showing(r)
                        \/ \E h \in Redirect : Resolve(r, h)
  \/ \E h \in Redirect : UserIsRedirected(h) \/ Exchange(h)
  \/ Receive \/ Reconnect

Spec == Init /\ [][Next]_vars

\* Goroutines run on, and the page stays open.  No user has to log in, and no request
\* has to time out.
Fairness ==
  /\ \A r \in Request : WF_vars(Showing(r)) /\ WF_vars(Leaving(r))
  /\ WF_vars(Receive) /\ WF_vars(Reconnect)

-----------------------------------------------------------------------------

\* The popup on display is the one whose ShowPopup waits: none is overwritten, which
\* would leave its goroutine, and with it showPopupMu, waiting for ever.
ShownIsAwaited == {r \in Request : popup[r] = "shown"} = {current} \ {0}

\* No request takes away the popup of another that still waits: it is on display, or
\* the goroutine has still to show it.
WaitingIsAsked ==
  \A r \in Request : phase[r] = "waiting" => popup[r] \in {"pending", "shown"}

\* One state code is exchanged for one token, however often its window was opened.
ExchangedOnce ==
  \A g, h \in Redirect :
    {login[g], login[h]} \subseteq {"exchanging", "token", "accepted"} /\ of[g] = of[h] => g = h

\* What holds of requests and popups at any time.
OAuthPopupSafe == TypeOK /\ ShownIsAwaited /\ WaitingIsAsked /\ ExchangedOnce

\* As long as a request waits the user is asked to log in, if only by the popup of a
\* request before it, although events get lost and popups wait for each other.
PageAsks ==
  \A r \in Request : <>[](phase[r] = "waiting") => <>[](screen # 0)

=============================================================================
