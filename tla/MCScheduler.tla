---------------------------- MODULE MCScheduler ----------------------------
(* Values for model checking Scheduler: an hour of four minutes, a task    *)
(* for every minute and a task, bound to a session, for "1-3/2".           *)
EXTENDS Scheduler, TLC

CONSTANTS always, odd, chat, t1, t2

MCConfig == {always, odd}
MCCron == (always :> {[base |-> "*", low |-> 0, high |-> 3, step |-> 1]})
       @@ (odd :> {[base |-> "range", low |-> 1, high |-> 3, step |-> 2]})
MCCreated == {(t1 :> always @@ t2 :> odd), (t1 :> always @@ t2 :> Absent)}
MCSession == (always :> Unbound) @@ (odd :> chat)
=============================================================================
