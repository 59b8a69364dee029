-------------------------- MODULE ChpsimCheckpoint --------------------------
(***************************************************************************)
(* Chpsim with the commands save, load and initialize.  Commands are obeyed*)
(* only between calls of step(), which returns once an event has executed  *)
(* or nothing is left.                                                     *)
(***************************************************************************)
EXTENDS Chpsim

VARIABLES executed,   \* whether the last iteration executed an event
          saved       \* the checkpoint files: at most one

cvars == <<vars, executed, saved>>

Prompt ==
    /\ ~halted /\ rechecks = {}
    /\ executed \/ (fifo = <<>> /\ \A e \in Event : queue[e] = 0)

Checkpoint ==
    [val |-> val, status |-> status, data |-> data,
     subscribed |-> subscribed, fifo |-> fifo, queue |-> queue]

save_checkpoint ==
    /\ Prompt /\ saved = {}
    /\ saved' = {Checkpoint}
    /\ UNCHANGED <<vars, executed>>

\* The data of a channel is written only while it holds a value.
load_checkpoint ==
    /\ Prompt
    /\ \E s \in saved :
        /\ val' = s.val /\ status' = s.status
        /\ data' = [c \in Chan |->
                        IF s.status[c] \in {"sender_blocked", "sent", "received"}
                        THEN s.data[c] ELSE data[c]]
        /\ subscribed' = s.subscribed /\ fifo' = s.fifo /\ queue' = s.queue
    /\ executed' = TRUE
    /\ UNCHANGED <<graph, countdown, rechecks, halted, saved>>

\* The command `initialize', or a new simulator on the same object file.
initialize ==
    /\ Prompt
    /\ countdown' = [e \in Event |-> graph[e].preds]
    /\ queue' = [e \in Event |-> IF e = 0 THEN 1 ELSE 0]
    /\ fifo' = <<>> /\ subscribed' = {}
    /\ val' = [v \in Var |-> FALSE]
    /\ status' = [c \in Chan |-> "inactive"]
    /\ data' = [c \in Chan |-> FALSE]
    /\ executed' = TRUE
    /\ UNCHANGED <<graph, rechecks, halted, saved>>

CheckpointInit == Init /\ executed = TRUE /\ saved = {}

Execute == Immediate \/ \E e \in Event : Proceed(e)
Check == \E e \in Event : Arrive(e) \/ Block(e) \/ Refuse(e)
Notify == \E e \in Event : Ignore(e) \/ Recheck(e)

CheckpointNext ==
    \/ Execute /\ executed' = TRUE /\ UNCHANGED saved
    \/ Check /\ executed' = FALSE /\ UNCHANGED saved
    \/ Notify /\ UNCHANGED <<executed, saved>>
    \/ save_checkpoint
    \/ load_checkpoint
    \/ initialize

CheckpointSpec == CheckpointInit /\ [][CheckpointNext]_cvars
=============================================================================
