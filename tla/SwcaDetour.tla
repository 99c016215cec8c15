------------------------------- MODULE SwcaDetour -------------------------------
(***************************************************************************)
(* Who paints a classic taskbar.  Explorer sets the accent of its taskbars *)
(* by SetWindowCompositionAttribute, which ExplorerHooks detours: it first *)
(* asks the worker, for at most 100 ms, and only calls the function when   *)
(* the worker has not answered that it painted (SWCADetour).  The worker   *)
(* in turn makes Explorer repaint by sending it WM_DWMCOMPOSITIONCHANGED,  *)
(* and answers while it waits for that to be handled.                      *)
(***************************************************************************)
EXTENDS Naturals, Sequences

CONSTANTS
  Bars,          \* the taskbars, all of one thread of Explorer
  MaxDepth,      \* bound: calls of the worker within one another
  MaxRequests,   \* bound: requests that wait for the worker
  MaxOutside     \* bound: modes, resets and forced refreshes

ASSUME DetourAssumption ==
  /\ "none" \notin Bars
  /\ MaxDepth \in Nat \ {0} /\ MaxRequests \in Nat /\ MaxOutside \in Nat

VARIABLES
  \* the worker
  life,   \* whether it runs, and how it ended
  desired,   \* the accent GetConfig gives: "normal", or one of the program's
  normal,    \* m_NormalTaskbars
  disabled,  \* m_disableAttributeRefreshReply
  calls,     \* its calls in progress, the innermost first
  replying,  \* the request it is answering, if any
  outside,   \* messages of others it has handled
  \* Explorer
  asking,    \* the request its thread waits for, if any, and on whose behalf
  requests,  \* TTBHook_RequestAttributeRefresh messages sent to the worker
  shown,     \* the accent of each taskbar
  missed,    \* taskbars Explorer painted by itself, which the worker would have
  \* history
  presumed,  \* taskbars that ResetState took for normal though they were not
  disturbed  \* whether others reached the worker while it exited

detourVars == <<life, desired, normal, disabled, calls, replying, outside,
                asking, requests, shown, missed, presumed, disturbed>>

Accents == {"normal", "ours"}
Nobody == [bar |-> "none", call |-> 0]
NoReply == [bar |-> "none", live |-> FALSE, painted |-> FALSE]

(* A call of the worker that sends to taskbar bar, until served; those     *)
(* that go over taskbars have some left to do, and hold an iterator.       *)
Call ==
       [at : {"refresh", "stock"}, bar : Bars \cup {"none"}, served : BOOLEAN, todo : SUBSET Bars, valid : BOOLEAN]
  \cup [at : {"force", "forceAgain"}, bar : Bars, served : BOOLEAN]

DetourInit ==
  /\ life = "running" /\ desired = "normal" /\ normal = Bars /\ disabled = FALSE
  /\ calls = <<>> /\ replying = NoReply /\ outside = 0
  /\ asking = Nobody /\ requests = <<>>
  /\ shown = [b \in Bars |-> "normal"] /\ missed = {} /\ presumed = {} /\ disturbed = FALSE

DetourTypeOK ==
  /\ life \in {"running", "exiting", "gone", "killed", "corrupt"}
  /\ desired \in Accents /\ normal \subseteq Bars /\ disabled \in BOOLEAN
  /\ calls \in Seq(Call)
  /\ replying \in [bar : Bars \cup {"none"}, live : BOOLEAN, painted : BOOLEAN]
  /\ outside \in 0..MaxOutside
  /\ asking \in [bar : Bars \cup {"none"}, call : 0..MaxDepth]
  /\ requests \in Seq([bar : Bars, live : BOOLEAN])
  /\ shown \in [Bars -> Accents] /\ missed \subseteq Bars /\ presumed \subseteq Bars /\ disturbed \in BOOLEAN

-----------------------------------------------------------------------------
WorkerExists == life \in {"running", "exiting"}
Inner == Head(calls)

(* The worker handles sent messages in its loop, and while it waits for    *)
(* Explorer to serve what it sent.                                         *)
Pumping == WorkerExists /\ replying = NoReply /\ (calls # <<>> => ~Inner.served)

(* The call whose message Explorer would serve next: the outermost.  Calls *)
(* are numbered from the outermost.                                        *)
CallNo(k) == calls[Len(calls) + 1 - k]
Unserved == {k \in 1..Len(calls) : ~CallNo(k).served}
Serve(k) == IF k = 0 \/ k > Len(calls) THEN calls
            ELSE [calls EXCEPT ![Len(calls) + 1 - k].served = TRUE]

(* Explorer calls SetWindowCompositionAttribute on bar, by itself or       *)
(* because of call k of the worker: FunctionDetour asks the worker if its  *)
(* window exists.                                                          *)
FunctionDetour(b, k) ==
  /\ asking = Nobody
  /\ IF WorkerExists
     THEN /\ asking' = [bar |-> b, call |-> k]
          /\ requests' = Append(requests, [bar |-> b, live |-> TRUE])
          /\ UNCHANGED shown
     ELSE /\ shown' = [shown EXCEPT ![b] = "normal"]
          /\ UNCHANGED <<asking, requests>>
  /\ UNCHANGED <<life, desired, normal, disabled, calls, replying, outside, missed, presumed, disturbed>>

Repaint(b) == Len(requests) < MaxRequests /\ FunctionDetour(b, 0)
ServeWorker ==
  \E k \in Unserved : (\A l \in Unserved : k <= l) /\ FunctionDetour(CallNo(k).bar, k)

(* No answer within 100 ms, or the worker ends: Explorer paints.  The      *)
(* request stays where it is.                                              *)
TimeOut ==
  /\ asking # Nobody
  /\ shown' = [shown EXCEPT ![asking.bar] = "normal"]
  /\ missed' = missed \cup {asking.bar}
  /\ requests' = [i \in DOMAIN requests |-> [requests[i] EXCEPT !.live = FALSE]]
  /\ replying' = [replying EXCEPT !.live = FALSE]
  /\ calls' = Serve(asking.call)
  /\ asking' = Nobody
  /\ UNCHANGED <<life, desired, normal, disabled, outside, presumed, disturbed>>

-----------------------------------------------------------------------------
(* SetAttribute on a classic taskbar with an accent of the program.        *)
(* Slips: nothing is painted; the taskbar is still taken for normal.       *)
PaintNothing(b) ==
  /\ normal' = normal \ {b}
  /\ missed' = missed \ {b} /\ presumed' = presumed \ {b}
  /\ UNCHANGED shown

PaintOnly(b) ==
  /\ shown' = [shown EXCEPT ![b] = "ours"]
  /\ missed' = missed \ {b} /\ presumed' = presumed \ {b}
  /\ UNCHANGED normal

PaintOurs(b) ==
  /\ shown' = [shown EXCEPT ![b] = "ours"]
  /\ normal' = normal \ {b}
  /\ missed' = missed \ {b} /\ presumed' = presumed \ {b}

(* OnRequestAttributeRefresh: a taskbar that has an accent of the program  *)
(* is painted, unless answers are disabled.                                *)
Answer ==
  /\ Pumping /\ requests # <<>>
  /\ LET request == Head(requests)
         paints == ~disabled /\ desired # "normal"
     IN  /\ replying' = [bar |-> request.bar, live |-> request.live, painted |-> paints]
         /\ IF paints THEN PaintOurs(request.bar) ELSE UNCHANGED <<shown, normal, missed, presumed>>
  /\ requests' = Tail(requests)
  /\ UNCHANGED <<life, desired, disabled, calls, outside, asking, disturbed>>

(* The answer reaches Explorer, if it still waits: it paints by itself if  *)
(* the worker did not.                                                     *)
Reply ==
  /\ WorkerExists /\ replying # NoReply
  /\ replying' = NoReply
  /\ IF replying.live
     THEN /\ shown' = IF replying.painted THEN shown ELSE [shown EXCEPT ![replying.bar] = "normal"]
          /\ missed' = IF replying.painted THEN missed
                     ELSE IF desired = "normal" THEN missed \ {replying.bar} ELSE missed \cup {replying.bar}
          /\ calls' = Serve(asking.call)
          /\ asking' = Nobody
     ELSE UNCHANGED <<shown, missed, calls, asking>>
  /\ UNCHANGED <<life, desired, normal, disabled, outside, requests, presumed, disturbed>>

-----------------------------------------------------------------------------
Going(place, todo) == [at |-> place, bar |-> "none", served |-> TRUE, todo |-> todo, valid |-> TRUE]

FromOutside ==
  /\ Pumping /\ Len(calls) < MaxDepth /\ outside < MaxOutside
  /\ outside' = outside + 1
  /\ disturbed' = (disturbed \/ life = "exiting")

(* A mode or the configuration changes: RefreshAllAttributes. *)
ChangeMode ==
  /\ FromOutside
  /\ desired' \in Accents \ {desired}
  /\ calls' = <<Going("refresh", Bars)>> \o calls
  /\ UNCHANGED <<life, normal, disabled, replying, asking, requests, shown, missed, presumed>>

(* ResetState, without its waits (module TaskbarWorker has them):          *)
(* m_Taskbars is made anew, and every taskbar is taken for normal.         *)
Reset ==
  /\ FromOutside
  /\ normal' = Bars
  /\ presumed' = {b \in Bars : shown[b] = "ours"}
  /\ calls' = <<Going("refresh", Bars)>> \o
              [i \in DOMAIN calls |-> IF calls[i].at = "stock" THEN [calls[i] EXCEPT !.valid = FALSE] ELSE calls[i]]
  /\ UNCHANGED <<life, desired, disabled, replying, asking, requests, shown, missed>>

(* OnForceRefreshTaskbar: Explorer repaints first without then with the    *)
(* answers of the worker.                                                  *)
ForceRefresh(b) ==
  /\ FromOutside
  /\ disabled' = TRUE
  /\ calls' = <<[at |-> "force", bar |-> b, served |-> FALSE]>> \o calls
  /\ UNCHANGED <<life, desired, normal, replying, asking, requests, shown, missed, presumed>>

Returned(place) == WorkerExists /\ replying = NoReply /\ calls # <<>> /\ Inner.at = place /\ Inner.served

ForceAgain ==
  /\ Returned("force")
  /\ disabled' = FALSE
  /\ calls' = <<[at |-> "forceAgain", bar |-> Inner.bar, served |-> FALSE]>> \o Tail(calls)
  /\ UNCHANGED <<life, desired, normal, replying, outside, asking, requests, shown, missed, presumed, disturbed>>

ForceDone ==
  /\ Returned("forceAgain")
  /\ calls' = Tail(calls)
  /\ UNCHANGED <<life, desired, normal, disabled, replying, outside, asking, requests, shown, missed, presumed, disturbed>>

(* One taskbar of RefreshAllAttributes, or of the loop of ReturnToStock,   *)
(* whose iterator is only good while m_Taskbars is not made anew.          *)
NextBar(place, accent) ==
  /\ Returned(place) /\ Inner.valid /\ Inner.todo # {}
  /\ \E b \in Inner.todo :
       LET next == [Inner EXCEPT !.todo = @ \ {b}] IN
       \/ /\ accent = "ours" /\ PaintOurs(b)
          /\ calls' = <<next>> \o Tail(calls)
       \/ /\ accent = "normal" /\ b \in normal
          /\ calls' = <<next>> \o Tail(calls)
          /\ UNCHANGED <<shown, normal, missed, presumed>>
       \/ /\ accent = "normal" /\ b \notin normal
          /\ normal' = normal \cup {b}
          /\ calls' = <<[next EXCEPT !.bar = b, !.served = FALSE]>> \o Tail(calls)
          /\ UNCHANGED <<shown, missed, presumed>>
  /\ UNCHANGED <<life, desired, disabled, replying, outside, asking, requests, disturbed>>

RefreshBar == NextBar("refresh", desired)
ReturnBarToStock == NextBar("stock", "normal")

RefreshDone ==
  /\ Returned("refresh") /\ Inner.todo = {}
  /\ calls' = Tail(calls)
  /\ UNCHANGED <<life, desired, normal, disabled, replying, outside, asking, requests, shown, missed, presumed, disturbed>>

(* ~TaskbarAttributeWorker.  Slip: the answers are not disabled. *)
ExitAnswering ==
  /\ life = "running" /\ calls = <<>> /\ replying = NoReply
  /\ life' = "exiting"
  /\ calls' = <<Going("stock", Bars)>>
  /\ UNCHANGED <<desired, normal, disabled, replying, outside, asking, requests, shown, missed, presumed, disturbed>>

Exit ==
  /\ life = "running" /\ calls = <<>> /\ replying = NoReply
  /\ life' = "exiting"
  /\ disabled' = TRUE
  /\ calls' = <<Going("stock", Bars)>>
  /\ UNCHANGED <<desired, normal, replying, outside, asking, requests, shown, missed, presumed, disturbed>>

(* The end of the process, which takes its window and its hooks along. *)
Ends(how) ==
  /\ life' = how
  /\ calls' = <<>> /\ replying' = NoReply /\ requests' = <<>>
  /\ UNCHANGED <<desired, normal, disabled, outside, asking, shown, missed, presumed, disturbed>>

Gone == Returned("stock") /\ Inner.valid /\ Inner.todo = {} /\ Ends("gone")
DanglingIterator == Returned("stock") /\ ~Inner.valid /\ Ends("corrupt")
Killed == WorkerExists /\ Ends("killed")

DetourNext ==
  \/ ServeWorker \/ TimeOut \/ Answer \/ Reply
  \/ ChangeMode \/ Reset \/ ForceAgain \/ ForceDone \/ RefreshBar \/ ReturnBarToStock \/ RefreshDone
  \/ Exit \/ Gone \/ DanglingIterator \/ Killed
  \/ \E b \in Bars : Repaint(b) \/ ForceRefresh(b)

DetourSpec == DetourInit /\ [][DetourNext]_detourVars

-----------------------------------------------------------------------------
(* When Explorer is told that the worker painted, and so does not, the     *)
(* taskbar shows an accent of the program: between SetAttribute in the     *)
(* worker and the return of SendMessageTimeout in Explorer nothing takes   *)
(* it away (OnRequestAttributeRefresh, FunctionDetour).                    *)
SwallowedMeansPainted ==
  [][replying # NoReply /\ replying' = NoReply /\ replying.live /\ replying.painted /\ asking # Nobody /\ asking' = Nobody
     => shown'[replying.bar] = "ours"]_detourVars

(* Once all is quiet, every taskbar shows what its configuration asks for, *)
(* however requests, forced refreshes, resets and changes of mode were     *)
(* handled within one another, unless Explorer painted it because an       *)
(* answer came late or answers were disabled, or ResetState took it for    *)
(* normal when it was not.                                                 *)
Quiet == life = "running" /\ calls = <<>> /\ replying = NoReply /\ requests = <<>> /\ asking = Nobody
AccentSettles == Quiet => \A b \in Bars : shown[b] = desired \/ b \in missed \cup presumed

(* After a clean exit Explorer's own accent is back on every taskbar,      *)
(* though it asks the worker while that returns to stock, if nobody else   *)
(* reached the worker meanwhile and ResetState did not take a taskbar for  *)
(* normal.                                                                 *)
StockAfterExit ==
  life = "gone" /\ asking = Nobody /\ ~disturbed => \A b \in Bars : shown[b] = "normal" \/ b \in presumed

=============================================================================
