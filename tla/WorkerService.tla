--------------------------- MODULE WorkerService ---------------------------
(***************************************************************************)
(* What one worker promises to its clients and to the master, without its  *)
(* loop: a connection is taken at most once, then is finished or dropped   *)
(* for good; the worker leaves after a quit only when it serves nobody.    *)
(* EventLoop implements this; the workers of Master behave like this.      *)
(***************************************************************************)
CONSTANT Conn

VARIABLES life,   \* what became of each connection
          worker  \* the process

vars == <<life, worker>>

Alive == worker \in {"up", "quitting"}
Serving == {c \in Conn : life[c] = "serving"}
Move(c, from, to) == /\ life[c] = from
                     /\ life' = [life EXCEPT ![c] = to]

Init == life = [c \in Conn |-> "none"] /\ worker = "up"

Arrive(c) == Alive /\ Move(c, "none", "waiting") /\ UNCHANGED worker

(* Another worker takes it from the shared socket.                         *)
Lose(c) == Alive /\ Move(c, "waiting", "elsewhere") /\ UNCHANGED worker

(* The worker may break over what it handles: over the first of a request, *)
(* and when the action has ended and the connection is closed.             *)
Take(c) == /\ Alive /\ Move(c, "waiting", "serving")
           /\ worker' \in {worker, "crashed"}

Done(c) == /\ Alive /\ Move(c, "serving", "done")
           /\ worker' \in {worker, "crashed"}

(* The worker forgets inactive connections, any number at once.            *)
Drop == /\ Alive
        /\ \E gone \in (SUBSET Serving) \ {{}} :
             life' = [c \in Conn |-> IF c \in gone THEN "dropped" ELSE life[c]]
        /\ UNCHANGED worker

Quit  == worker = "up" /\ worker' = "quitting" /\ UNCHANGED life
Leave == worker = "quitting" /\ Serving = {} /\ worker' = "left" /\ UNCHANGED life
Crash == Alive /\ worker' = "crashed" /\ UNCHANGED life

Next == \/ \E c \in Conn : Arrive(c) \/ Lose(c) \/ Take(c) \/ Done(c)
        \/ Drop \/ Quit \/ Leave \/ Crash

Spec == Init /\ [][Next]_vars
=============================================================================
