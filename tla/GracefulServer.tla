--------------------------- MODULE GracefulServer ---------------------------
(***************************************************************************)
(* What the API process promises about its stop.  It accepts connections   *)
(* while it serves and never afterwards.  Asked to stop, it drains: no     *)
(* request that has been read is given up, until all are answered or the   *)
(* grace is over.  Only then does it close what the requests use, and end. *)
(* A process may be lost at any time, and then owes nothing.               *)
(***************************************************************************)
EXTENDS Naturals

CONSTANT Requests

VARIABLES
  phase,      \* "starting", "serving", "draining", "closing", "ended" or "lost"
  asked,      \* the process has been asked to stop
  connected,  \* the requests whose connection is accepted
  taken,      \* the requests that have been read and not yet answered
  answer,     \* answer[r]: the status r was answered with, 0 before that
  overdue     \* the grace ran out with requests under way

Init == /\ phase = "starting"
        /\ asked = FALSE
        /\ connected = {}
        /\ taken = {}
        /\ answer = [r \in Requests |-> 0]
        /\ overdue = FALSE

Running == phase \notin {"ended", "lost"}

\* In the closing phase only an overdue server still works on requests.
Working == Running /\ (phase = "closing" => overdue)

Move(from, to) == /\ phase = from
                  /\ phase' = to
                  /\ UNCHANGED <<asked, connected, taken, answer>>

Ask == /\ Running
       /\ ~ asked
       /\ asked' = TRUE
       /\ UNCHANGED <<phase, connected, taken, answer, overdue>>

Serve == Move("starting", "serving") /\ UNCHANGED overdue

Connect(r) == /\ phase = "serving"
              /\ r \notin connected \cup taken
              /\ answer[r] = 0
              /\ connected' = connected \cup {r}
              /\ UNCHANGED <<phase, asked, taken, answer, overdue>>

Take(r) == /\ Working
           /\ r \in connected
           /\ connected' = connected \ {r}
           /\ taken' = taken \cup {r}
           /\ UNCHANGED <<phase, asked, answer, overdue>>

\* A preflight is answered as it is read.
Answer(r) == /\ Working
             /\ r \in connected \cup taken
             /\ connected' = connected \ {r}
             /\ taken' = taken \ {r}
             /\ answer[r] = 0
             /\ answer'[r] # 0
             /\ answer' = [answer EXCEPT ![r] = answer'[r]]
             /\ UNCHANGED <<phase, asked, overdue>>

\* A connection on which no request has come is closed.
Drop(r) == /\ phase = "draining"
           /\ r \in connected
           /\ connected' = connected \ {r}
           /\ UNCHANGED <<phase, asked, taken, answer, overdue>>

Drain == asked /\ Move("serving", "draining") /\ UNCHANGED overdue

Close == /\ Move("draining", "closing")
         /\ \/ connected \cup taken = {} /\ UNCHANGED overdue
            \/ connected \cup taken # {} /\ overdue' = TRUE

End == Move("closing", "ended") /\ UNCHANGED overdue

Lose == Running /\ Move(phase, "lost") /\ UNCHANGED overdue

Next == \/ Ask \/ Serve \/ Drain \/ Close \/ End \/ Lose
        \/ \E r \in Requests : Connect(r) \/ Take(r) \/ Answer(r) \/ Drop(r)

Spec == Init /\ [][Next]_<<phase, asked, connected, taken, answer, overdue>>
=============================================================================
