----------------------------- MODULE SilenceGuard -----------------------------
(***************************************************************************)
(* One HTTP exchange with a provider and the two guards against its        *)
(* silence: DoWithHeaderTimeout while there are no headers, idleBody while *)
(* there are no bytes, as the clients of the providers use them.           *)
(*                                                                         *)
(* Each guard is a timer whose callback runs on a goroutine of its own and *)
(* takes a mutex the caller also takes; a section under the mutex is one   *)
(* step.  Time is what is left on each timer, so there is no clock to      *)
(* bound.  A timer may run late.                                           *)
(***************************************************************************)
EXTENDS Integers

CONSTANTS
  Timeout,     \* PROVIDER_SILENCE_TIMEOUT_SECONDS, in ticks
  Callbacks,   \* idle callbacks that may be waiting for the mutex at once
  Exchanges    \* the exchanges considered: a subset of Exchange

\* transport is who guards the headers: the client's own http.Transport, or
\* DoWithHeaderTimeout around a client that is not ours (Tinfoil).  A failing
\* status makes the body an error report.
Exchange == [transport : {"own", "wrapped"}, stream : BOOLEAN, fails : BOOLEAN]

ASSUME GuardAssumption ==
  /\ Timeout \in Nat \ {0}
  /\ Callbacks # {}
  /\ Exchanges \subseteq Exchange

Off == -1

VARIABLES
  ex,          \* the exchange
  place,       \* the caller: wait, woken, report, handed, reading, got, close, done
  parent,      \* the inference context: live, canceled
  reqCtx,      \* the context of the HTTP request, which follows parent
  answer,      \* what client.Do returned
  headerTimer, \* ticks left on the header timer
  waiting,     \* DoWithHeaderTimeout's variables: still in client.Do,
  overdue,     \*   and the timer fired meanwhile (expired)
  headerCall,  \* the header timer's callback is waiting for the mutex
  timer,       \* ticks left on idleBody's timer
  left,        \* ticks left until idleBody's deadline
  closed, expired,
  idleCall,    \* each idle callback: none, lock, close
  respBody,    \* the provider's body: none, open, closed
  network,     \* what the provider has sent and nobody has read
  read,        \* what the inner Read returned
  silence,     \* ticks since bytes were last delivered, up to Timeout
  outcome      \* how the exchange ended

guardVars == <<ex, place, parent, reqCtx, answer, headerTimer, waiting, overdue,
               headerCall, timer, left, closed, expired, idleCall, respBody, network,
               read, silence, outcome>>

header == <<answer, headerTimer, waiting, overdue, headerCall>>
idle == <<timer, left, closed, expired, idleCall>>

Arrivals == {"bytes", "eof", "reset"}

\* The body is behind idleBody.
Guarded == place \in {"handed", "reading", "got", "close"}

\* The HTTP client ends a call whose context, or its parent, is canceled.
ContextEnded == reqCtx = "canceled" \/ parent = "canceled"

-----------------------------------------------------------------------------
(* The headers.                                                            *)

\* client.Do returns a response, a network failure, the context's error, or the
\* transport's own ResponseHeaderTimeout.
DoReturns ==
  /\ place = "wait"
  /\ \/ answer' \in {"response", "network"}
     \/ ContextEnded /\ answer' = "canceled"
     \/ ex.transport = "own" /\ headerTimer = 0 /\ answer' = "timeout"
  /\ respBody' = IF answer' = "response" THEN "open" ELSE "none"
  /\ place' = "woken"
  /\ UNCHANGED <<ex, parent, reqCtx, headerTimer, waiting, overdue, headerCall,
                 idle, network, read, silence, outcome>>

\* The wrapped client's header timer fires: its callback starts.
HeaderTimerFires ==
  /\ ex.transport = "wrapped" /\ headerTimer = 0
  /\ headerTimer' = Off
  /\ headerCall' = TRUE
  /\ UNCHANGED <<ex, place, parent, reqCtx, answer, waiting, overdue, idle, respBody,
                 network, read, silence, outcome>>

HeaderCallback ==
  /\ headerCall
  /\ headerCall' = FALSE
  /\ \/ /\ waiting
        /\ overdue' = TRUE /\ reqCtx' = "canceled"
     \/ ~waiting /\ UNCHANGED <<overdue, reqCtx>>
  /\ UNCHANGED <<ex, place, parent, answer, headerTimer, waiting, idle, respBody,
                 network, read, silence, outcome>>

\* The response's body: an error report of a stream is read at once, without
\* the guard; any other body goes behind WithIdleTimeout.
Open ==
  /\ \/ /\ ex.stream /\ ex.fails
        /\ place' = "report"
        /\ UNCHANGED idle
     \/ /\ ~(ex.stream /\ ex.fails)
        /\ place' = IF ex.stream THEN "handed" ELSE "reading"
        /\ timer' = Timeout /\ left' = Timeout
        /\ UNCHANGED <<closed, expired, idleCall>>
  /\ silence' = 0
  /\ UNCHANGED <<reqCtx, respBody, outcome>>

\* client.Do failed, or came too late.
EndWithout(how) ==
  /\ outcome' = how
  /\ reqCtx' = IF ex.transport = "wrapped" THEN "canceled" ELSE reqCtx
  /\ respBody' = IF respBody = "open" THEN "closed" ELSE respBody
  /\ place' = "done"
  /\ UNCHANGED <<idle, silence>>

\* Mutant of HeadersChecked: waiting is left set.
HeadersCheckedStillWaiting ==
  /\ place = "woken"
  /\ headerTimer' = Off
  /\ IF overdue /\ parent = "live" THEN EndWithout("timeout")
     ELSE IF answer # "response" THEN EndWithout(answer)
     ELSE Open
  /\ UNCHANGED <<ex, parent, answer, waiting, overdue, headerCall, network, read>>

\* Mutant of HeadersChecked: a failed Do keeps its context.
HeadersCheckedLeaking ==
  /\ place = "woken"
  /\ headerTimer' = Off /\ waiting' = FALSE
  /\ IF overdue /\ parent = "live" THEN EndWithout("timeout")
     ELSE IF answer # "response"
     THEN /\ outcome' = answer
          /\ place' = "done"
          /\ UNCHANGED <<reqCtx, respBody, idle, silence>>
     ELSE Open
  /\ UNCHANGED <<ex, parent, answer, overdue, headerCall, network, read>>

\* The rest of DoWithHeaderTimeout.  An overdue answer is dropped, unless the
\* inference itself was canceled.
HeadersChecked ==
  /\ place = "woken"
  /\ headerTimer' = Off /\ waiting' = FALSE
  /\ \/ overdue /\ parent = "live" /\ EndWithout("timeout")
     \/ /\ ~(overdue /\ parent = "live") /\ answer # "response"
        /\ EndWithout(answer)
     \/ /\ ~(overdue /\ parent = "live") /\ answer = "response"
        /\ Open
  /\ UNCHANGED <<ex, parent, answer, overdue, headerCall, network, read>>

-----------------------------------------------------------------------------
(* The body.                                                               *)

\* DoStream reads an error report to its end, ignores how it ended, and closes
\* the body.
ReportRead ==
  /\ place = "report"
  /\ network \in {"eof", "reset"} \/ ContextEnded
  /\ outcome' = "status"
  /\ respBody' = "closed"
  /\ reqCtx' = IF ex.transport = "wrapped" THEN "canceled" ELSE reqCtx
  /\ place' = "done"
  /\ UNCHANGED <<ex, parent, header, idle, network, read, silence>>

ReportContinues ==
  /\ place = "report" /\ network = "bytes"
  /\ network' = "nothing"
  /\ silence' = 0
  /\ UNCHANGED <<ex, place, parent, reqCtx, header, idle, respBody, read, outcome>>

\* The relay of a stream reads on, or ends the stream (prime failed).
NextRead ==
  /\ place = "handed"
  /\ \/ place' = "reading" /\ UNCHANGED outcome
     \/ place' = "close" /\ outcome' = "abandoned"
  /\ UNCHANGED <<ex, parent, reqCtx, header, idle, respBody, network, read, silence>>

\* The inner Read returns: what arrived, or that the body or the context ended.
InnerRead ==
  /\ place = "reading"
  /\ \/ network # "nothing" /\ read' = network
     \/ respBody = "closed" /\ read' = "closed"
     \/ ContextEnded /\ read' = "canceled"
  /\ network' = IF read' = "bytes" THEN "nothing" ELSE network
  /\ place' = "got"
  /\ UNCHANGED <<ex, parent, reqCtx, header, idle, respBody, silence, outcome>>

\* Mutant of ReadLocked: what the inner Read returned is passed on, expired or not.
ReadLockedUntold ==
  /\ place = "got"
  /\ \/ /\ read = "bytes"
        /\ place' = IF ex.stream THEN "handed" ELSE "reading"
        /\ left' = Timeout /\ timer' = IF closed THEN timer ELSE Timeout
        /\ silence' = 0
        /\ UNCHANGED outcome
     \/ /\ read # "bytes"
        /\ place' = "close" /\ outcome' = read
        /\ UNCHANGED <<timer, left, silence>>
  /\ UNCHANGED <<ex, parent, reqCtx, header, closed, expired, idleCall, respBody,
                 network, read>>

\* The rest of idleBody.Read, under the mutex.  Bytes set the timer anew: the
\* reader is also who closes the body, so it is open here unless it expired.
ReadLocked ==
  /\ place = "got"
  /\ \/ /\ expired
        /\ place' = "close" /\ outcome' = "timeout"
        /\ UNCHANGED <<timer, left, silence>>
     \/ /\ ~expired /\ read = "bytes"
        /\ place' = IF ex.stream THEN "handed" ELSE "reading"
        /\ left' = Timeout /\ timer' = Timeout /\ silence' = 0
        /\ UNCHANGED outcome
     \/ /\ ~expired /\ read # "bytes"
        /\ place' = "close" /\ outcome' = read
        /\ UNCHANGED <<timer, left, silence>>
  /\ UNCHANGED <<ex, parent, reqCtx, header, closed, expired, idleCall, respBody,
                 network, read>>

\* idleBody.Close by the owner, and cancelBody.Close below it.
Close ==
  /\ place = "close"
  /\ closed' = TRUE /\ timer' = Off
  /\ respBody' = "closed"
  /\ reqCtx' = IF ex.transport = "wrapped" THEN "canceled" ELSE reqCtx
  /\ place' = "done"
  /\ UNCHANGED <<ex, parent, header, left, expired, idleCall, network, read,
                 silence, outcome>>

\* The idle timer fires: a callback starts.
IdleTimerFires ==
  /\ timer = 0
  /\ timer' = Off
  /\ \E c \in Callbacks :
       idleCall[c] = "none" /\ idleCall' = [idleCall EXCEPT ![c] = "lock"]
  /\ UNCHANGED <<ex, place, parent, reqCtx, header, left, closed, expired, respBody,
                 network, read, silence, outcome>>

\* Mutant of IdleCallback: the deadline is not looked at again.
IdleCallbackStale(c) ==
  /\ idleCall[c] = "lock"
  /\ IF closed THEN idleCall' = [idleCall EXCEPT ![c] = "none"] /\ UNCHANGED <<closed, expired>>
     ELSE /\ expired' = TRUE /\ closed' = TRUE
          /\ idleCall' = [idleCall EXCEPT ![c] = "close"]
  /\ UNCHANGED <<ex, place, parent, reqCtx, header, timer, left, respBody, network, read,
                 silence, outcome>>

\* The callback under the mutex: nothing to do for a closed body, a stale
\* callback waits on, and otherwise the body has expired.
IdleCallback(c) ==
  /\ idleCall[c] = "lock"
  /\ \/ /\ closed
        /\ idleCall' = [idleCall EXCEPT ![c] = "none"]
        /\ UNCHANGED <<timer, closed, expired>>
     \/ /\ ~closed /\ left > 0
        /\ timer' = left
        /\ idleCall' = [idleCall EXCEPT ![c] = "none"]
        /\ UNCHANGED <<closed, expired>>
     \/ /\ ~closed /\ left = 0
        /\ expired' = TRUE /\ closed' = TRUE
        /\ idleCall' = [idleCall EXCEPT ![c] = "close"]
        /\ UNCHANGED timer
  /\ UNCHANGED <<ex, place, parent, reqCtx, header, left, respBody, network, read,
                 silence, outcome>>

\* Mutant of IdleCloses: the body stays open.
IdleClosesNothing(c) ==
  /\ idleCall[c] = "close"
  /\ idleCall' = [idleCall EXCEPT ![c] = "none"]
  /\ UNCHANGED <<ex, place, parent, reqCtx, header, timer, left, closed, expired, respBody,
                 network, read, silence, outcome>>

\* The callback closes the body after it let go of the mutex; the body is
\* cancelBody for the wrapped client.
IdleCloses(c) ==
  /\ idleCall[c] = "close"
  /\ idleCall' = [idleCall EXCEPT ![c] = "none"]
  /\ respBody' = "closed"
  /\ reqCtx' = IF ex.transport = "wrapped" THEN "canceled" ELSE reqCtx
  /\ UNCHANGED <<ex, place, parent, header, timer, left, closed, expired, network,
                 read, silence, outcome>>

-----------------------------------------------------------------------------
(* The environment.                                                        *)

\* The provider sends bytes, ends the body, or the connection breaks.
ProviderSends ==
  /\ network = "nothing" /\ respBody = "open"
  /\ network' \in Arrivals
  /\ UNCHANGED <<ex, place, parent, reqCtx, header, idle, respBody, read, silence, outcome>>

\* The inference is canceled: its credit hold was lost.
ParentCanceled ==
  /\ parent = "live" /\ place # "done"
  /\ parent' = "canceled"
  /\ UNCHANGED <<ex, place, reqCtx, header, idle, respBody, network, read, silence, outcome>>

\* A timer that is off or has run out stays as it is.
Down(t) == IF t > 0 THEN t - 1 ELSE t

Tick ==
  /\ place # "done"
  /\ headerTimer' = Down(headerTimer)
  /\ timer' = Down(timer)
  /\ left' = Down(left)
  /\ silence' = IF silence < Timeout THEN silence + 1 ELSE silence
  /\ UNCHANGED <<ex, place, parent, reqCtx, answer, waiting, overdue, headerCall,
                 closed, expired, idleCall, respBody, network, read, outcome>>

-----------------------------------------------------------------------------
GuardInit ==
  /\ ex \in Exchanges
  /\ place = "wait" /\ parent = "live" /\ reqCtx = "live" /\ answer = "none"
  /\ headerTimer = Timeout /\ waiting = TRUE /\ overdue = FALSE
  /\ headerCall = FALSE
  /\ timer = Off /\ left = Timeout /\ closed = FALSE /\ expired = FALSE
  /\ idleCall = [c \in Callbacks |-> "none"]
  /\ respBody = "none" /\ network = "nothing" /\ read = "nothing"
  /\ silence = 0 /\ outcome = "none"

\* The caller's steps that wait for nobody.
Caller ==
  \/ HeadersChecked \/ ReportRead \/ ReportContinues \/ NextRead \/ InnerRead
  \/ ReadLocked \/ Close

Timers ==
  \/ HeaderTimerFires \/ HeaderCallback \/ IdleTimerFires
  \/ \E c \in Callbacks : IdleCallback(c) \/ IdleCloses(c)

GuardNext == DoReturns \/ Caller \/ Timers \/ ProviderSends \/ ParentCanceled \/ Tick

\* client.Do has something to return without the provider.
DoCanReturn ==
  DoReturns /\ (ContextEnded \/ (ex.transport = "own" /\ headerTimer = 0))

\* Time passes, timers fire, goroutines run.  Nothing is assumed of the
\* provider, and nothing cancels the inference.
GuardFairness ==
  /\ WF_guardVars(Tick) /\ WF_guardVars(Caller) /\ WF_guardVars(DoCanReturn)
  /\ WF_guardVars(HeaderTimerFires) /\ WF_guardVars(HeaderCallback)
  /\ WF_guardVars(IdleTimerFires)
  /\ \A c \in Callbacks : WF_guardVars(IdleCallback(c)) /\ WF_guardVars(IdleCloses(c))

GuardSpec == GuardInit /\ [][GuardNext]_guardVars
FairGuardSpec == GuardSpec /\ GuardFairness

-----------------------------------------------------------------------------
(* Properties.                                                             *)

\* Every variable holds a value of its kind: the caller's place, the timers, the
\* callbacks and what was read.
GuardTypeOK ==
  /\ ex \in Exchange
  /\ place \in {"wait", "woken", "report", "handed", "reading", "got", "close", "done"}
  /\ parent \in {"live", "canceled"} /\ reqCtx \in {"live", "canceled"}
  /\ answer \in {"none", "response", "network", "canceled", "timeout"}
  /\ headerTimer \in Off .. Timeout /\ timer \in Off .. Timeout
  /\ left \in 0 .. Timeout /\ silence \in 0 .. Timeout
  /\ waiting \in BOOLEAN /\ overdue \in BOOLEAN /\ headerCall \in BOOLEAN
  /\ closed \in BOOLEAN /\ expired \in BOOLEAN
  /\ idleCall \in [Callbacks -> {"none", "lock", "close"}]
  /\ respBody \in {"none", "open", "closed"}
  /\ network \in {"nothing"} \cup Arrivals
  /\ read \in {"nothing", "closed", "canceled"} \cup Arrivals
  /\ outcome \in {"none", "network", "canceled", "timeout", "status",
                 "abandoned", "closed", "eof", "reset"}

\* A body expires only after a full timeout without a delivered byte: a callback
\* that was already waiting for the mutex when Read set the timer anew must not
\* end a stream that has just spoken.
OnlySilenceExpires == [][~expired /\ expired' => silence = Timeout]_guardVars

\* What the caller is told of a wait that the gateway itself cut off: a timeout,
\* never the "closed body" or the "canceled context" that the timers' callbacks
\* make of a blocked Read or Do, which mapProviderError would answer as a broken
\* provider or as a client that left.  And a timeout is told of silence only.
TimeoutIsTold ==
  /\ outcome # "closed"
  /\ outcome = "canceled" => parent = "canceled"
  /\ outcome = "timeout" => silence = Timeout

\* Once the headers are there the header timer never cancels the response, even
\* if its callback was already waiting for the mutex.
HeaderTimerSpares ==
  place \in {"report", "handed", "reading", "got"} /\ parent = "live" /\ ~expired
    => reqCtx = "live"

\* While the body is behind the guard something will end its silence: the timer
\* runs and ends with the deadline, or a callback is on its way.
GuardStands ==
  Guarded /\ ~closed =>
    \/ timer = left
    \/ timer = Off /\ left = 0 /\ \E c \in Callbacks : idleCall[c] = "lock"

\* Every way out releases what the exchange holds: the body, the timers, and the
\* request's context where DoWithHeaderTimeout made one.
NothingLeftOpen ==
  place = "done" =>
    /\ respBody # "open" /\ timer = Off /\ headerTimer = Off
    /\ ex.transport = "wrapped" => reqCtx = "canceled"

\* A provider that sends nothing, neither headers nor bytes, ends every wait for
\* it, as README.md:95 promises of PROVIDER_SILENCE_TIMEOUT_SECONDS: the wait for
\* headers (wait) and for the bytes of a body (reading).
SilenceEnds ==
  \A spot \in {"wait", "reading"} :
    place = spot /\ network = "nothing" ~> place # spot \/ network # "nothing"

\* The same of the wait for the rest of a failing stream's error report, which
\* DoStream reads without the guard: it does not hold.
ReportEnds ==
  place = "report" /\ network = "nothing" ~> place # "report" \/ network # "nothing"

=============================================================================
