----------------------------- MODULE VpnHelper -----------------------------
(***************************************************************************)
(* The API of the SDK: VpnHelper's startProxy, stopProxy and installCA,    *)
(* and the invisible HelperActivity that carries each call out.            *)
(*                                                                         *)
(* A call leaves its callback in a static field and launches an activity,  *)
(* which asks the user where it must, acts, invokes the callback and then  *)
(* clears the field.  Calls are made on the main thread, where the         *)
(* activity runs too: no handler of another activity runs while a callback *)
(* does, but the callback may call the API again, and it may throw.        *)
(* Android creates a waiting activity anew when the device is turned; the  *)
(* dialog it had opened stays, and a second one is opened.  The n-th call  *)
(* is numbered n, and so is its activity.                                  *)
(***************************************************************************)
EXTENDS Naturals, Sequences, FiniteSets

CONSTANTS
  MaxCalls,    \* bound: calls
  MaxTurns     \* bound: times a waiting activity is created anew

ASSUME HelperAssumption == MaxCalls \in Nat \ {0} /\ MaxTurns \in Nat

Ops == {"start", "stop", "ca"}
Calls == 1..MaxCalls

VARIABLES
  op,         \* the calls so far: what each one asked for
  callback,   \* startProxyCallback, stopProxyCallback, installCaCallBack: a call, or 0
  answers,    \* what each call's callback was invoked with
  activity,   \* the state of each call's activity
  dialogs,    \* results that each activity waits for
  done,       \* calls whose request reached the service or the key chain
  threw,      \* ghost: calls whose callback has thrown an Exception
  died,       \* an Exception left the handler: the app's process has died
  turns

vpnVars == <<op, callback, answers, activity, dialogs, done, threw, died, turns>>

VpnInit ==
  /\ op = <<>> /\ turns = 0 /\ done = {} /\ threw = {} /\ died = FALSE
  /\ callback = [o \in Ops |-> 0]
  /\ answers = [n \in Calls |-> <<>>]
  /\ activity = [n \in Calls |-> "none"]
  /\ dialogs = [n \in Calls |-> 0]

-----------------------------------------------------------------------------
(* Fault: a second call takes the field from the first. *)
CallTakesOver(o) ==
  LET n == Len(op) + 1 IN
  /\ n <= MaxCalls /\ ~died
  /\ op' = Append(op, o)
  /\ callback' = [callback EXCEPT ![o] = n]
  /\ activity' = [activity EXCEPT ![n] = "launched"]
  /\ UNCHANGED <<answers, dialogs, done, threw, died, turns>>

(* startProxy, stopProxy and installCA: a call is refused while the field  *)
(* of its kind holds a callback, also when that very callback makes it.    *)
Call(o) ==
  LET n == Len(op) + 1 IN
  /\ n <= MaxCalls /\ ~died
  /\ op' = Append(op, o)
  /\ IF callback[o] # 0
     THEN /\ answers' = [answers EXCEPT ![n] = <<FALSE>>]
          /\ UNCHANGED <<callback, activity>>
     ELSE /\ callback' = [callback EXCEPT ![o] = n]
          /\ activity' = [activity EXCEPT ![n] = "launched"]
          /\ answers' = answers
  /\ UNCHANGED <<dialogs, done, threw, died, turns>>

(* Where an activity is when it runs the callback: in the try block, in    *)
(* the catch block, or in onActivityResult outside of both.                *)
Telling == {"try", "catch", "outside"}

MainFree == ~died /\ \A n \in Calls : activity[n] \notin Telling

(* The callback in the field, if any, is invoked. *)
Invoke(n, result, where) ==
  /\ answers' = IF callback[op[n]] = 0 THEN answers
                ELSE [answers EXCEPT ![callback[op[n]]] = Append(@, result)]
  /\ activity' = [activity EXCEPT ![n] = where]
  /\ callback' = callback

(* The field is cleared and the activity finished. *)
ClearAndFinish(n) ==
  /\ callback' = [callback EXCEPT ![op[n]] = 0]
  /\ activity' = [activity EXCEPT ![n] = "finished"]
  /\ dialogs' = [dialogs EXCEPT ![n] = 0]

startActivityForResult(n) ==
  /\ activity' = [activity EXCEPT ![n] = "waiting"]
  /\ dialogs' = [dialogs EXCEPT ![n] = @ + 1]
  /\ UNCHANGED <<callback, answers, done>>

(* HelperActivity.startProxy and stopProxy: the system takes the request,  *)
(* or throws.                                                              *)
Perform(n) ==
  /\ \/ done' = done \cup {n} /\ Invoke(n, TRUE, "try")
     \/ done' = done /\ Invoke(n, FALSE, "catch")
  /\ UNCHANGED dialogs

(* VpnService.prepare returns null when the user has consented before. *)
Body(n) ==
  \/ op[n] \in {"start", "stop"} /\ Perform(n)
  \/ op[n] \in {"start", "ca"} /\ startActivityForResult(n)

onCreate(n) ==
  /\ MainFree /\ activity[n] = "launched"
  /\ Body(n)
  /\ UNCHANGED <<op, threw, died, turns>>

TurnDevice(n) ==
  /\ MainFree /\ activity[n] = "waiting" /\ turns < MaxTurns
  /\ turns' = turns + 1
  /\ Body(n)
  /\ UNCHANGED <<op, threw, died>>

(* Fault: a dialog that was cancelled ends the activity without a word. *)
ForgetCancelled(n) ==
  /\ MainFree /\ activity[n] = "waiting" /\ dialogs[n] > 0
  /\ \/ op[n] = "start" /\ Perform(n)
     \/ ClearAndFinish(n) /\ UNCHANGED <<answers, done>>
  /\ UNCHANGED <<op, threw, died, turns>>

(* A dialog is confirmed or cancelled. *)
onActivityResult(n) ==
  /\ MainFree /\ activity[n] = "waiting" /\ dialogs[n] > 0
  /\ \/ op[n] = "start" /\ Perform(n)
     \/ op[n] = "ca" /\ done' = done \cup {n} /\ Invoke(n, TRUE, "outside") /\ UNCHANGED dialogs
     \/ done' = done /\ Invoke(n, FALSE, "outside") /\ UNCHANGED dialogs
  /\ UNCHANGED <<op, threw, died, turns>>

(* Fault: the field is not cleared. *)
ReturnKeepsField(n) ==
  /\ ~died /\ activity[n] \in Telling
  /\ activity' = [activity EXCEPT ![n] = "finished"]
  /\ dialogs' = [dialogs EXCEPT ![n] = 0]
  /\ UNCHANGED <<op, callback, answers, done, threw, died, turns>>

CallbackReturns(n) ==
  /\ ~died /\ activity[n] \in Telling
  /\ ClearAndFinish(n)
  /\ UNCHANGED <<op, answers, done, threw, died, turns>>

(* What a callback throws in the try block brings it a second invocation,  *)
(* from the catch block; what it throws there leaves the handler once the  *)
(* finally block has run.  onActivityResult catches nothing.               *)
CallbackThrows(n) ==
  /\ ~died /\ activity[n] \in Telling /\ callback[op[n]] # 0
  /\ threw' = threw \cup {n}
  /\ \/ activity[n] = "try" /\ Invoke(n, FALSE, "catch") /\ UNCHANGED <<dialogs, died>>
     \/ activity[n] = "catch" /\ ClearAndFinish(n) /\ died' = TRUE /\ answers' = answers
     \/ /\ activity[n] = "outside" /\ died' = TRUE
        /\ UNCHANGED <<callback, answers, activity, dialogs>>
  /\ UNCHANGED <<op, done, turns>>

-----------------------------------------------------------------------------
VpnNext ==
  \/ \E o \in Ops : Call(o)
  \/ \E n \in Calls :
       \/ onCreate(n) \/ TurnDevice(n) \/ onActivityResult(n)
       \/ CallbackReturns(n) \/ CallbackThrows(n)

(* Android creates the activities it was asked for, the user answers the   *)
(* dialogs they see, and a callback returns or throws.                     *)
VpnFairness ==
  \A n \in Calls :
    /\ WF_vpnVars(onCreate(n)) /\ WF_vpnVars(onActivityResult(n))
    /\ WF_vpnVars(CallbackReturns(n) \/ CallbackThrows(n))

VpnSpec == VpnInit /\ [][VpnNext]_vpnVars /\ VpnFairness

-----------------------------------------------------------------------------
Waiting(n) == activity[n] \in {"launched", "waiting"}
Busy(n) == Waiting(n) \/ activity[n] \in Telling

(* The three fields and the activities stay in step: a field holds the     *)
(* callback of the one activity of its kind that is under way, and is      *)
(* empty when there is none, also when the device is turned under a dialog *)
(* or a callback throws.  A call is thus refused only while another is     *)
(* under way, the one that makes it from its callback included.            *)
FieldFollowsActivity ==
  \A o \in Ops : {n \in Calls : Busy(n) /\ op[n] = o} =
                   IF callback[o] = 0 THEN {} ELSE {callback[o]}

(* A callback is told first whether its own request was carried out, and   *)
(* is invoked once: a second time, with false, only after it threw on      *)
(* being told true.                                                        *)
AnswerFits ==
  \A n \in 1..Len(op) :
    \/ Waiting(n) /\ answers[n] = <<>> /\ n \notin done
    \/ ~Waiting(n) /\ answers[n] = <<FALSE>> /\ n \notin done
    \/ ~Waiting(n) /\ answers[n] = <<TRUE>> /\ n \in done
    \/ ~Waiting(n) /\ answers[n] = <<TRUE, FALSE>> /\ n \in done \cap threw

(* Every call of the API is answered, unless a callback ends the app. *)
EveryCallAnswered ==
  \A n \in Calls : Len(op) >= n ~> answers[n] # <<>> \/ died
=============================================================================
