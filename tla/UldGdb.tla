------------------------------ MODULE UldGdb ------------------------------
(***************************************************************************)
(* uld-gdb.py, the GDB extension used to debug uld on a target: the cached *)
(* answer to "is the remote stub QEMU?" (_is_qemu, set_qemu, check_qemu,   *)
(* is_qemu, and reset_qemu_handler on the exited event), the 'uld qemu'    *)
(* commands that step past a bkpt before resuming on QEMU, and 'uld        *)
(* example set'.  Each GDB command is one atomic action (GDB runs Python   *)
(* commands one at a time); an exception raised inside it ends it with the *)
(* assignments already made.                                               *)
(*                                                                         *)
(* The target: conn is the stub GDB is connected to ("none" when there is  *)
(* no live target) and pc the index of the next instruction of Prog, a     *)
(* program of "insn" and "bkpt" (a 2-byte Thumb bkpt is one element).  A   *)
(* QEMU stub does not move the pc when asked to step or continue at a bkpt *)
(* (the comment at CmdUldQEMUContinue); another stub executes it.  When    *)
(* the program runs off its end the inferior exits: GDB fires the exited   *)
(* event and there is no live target any more.                             *)
(***************************************************************************)
EXTENDS Integers, Sequences

CONSTANTS
    Prog,          \* the target program, a sequence of "insn" and "bkpt"
    HasEvents,     \* hasattr(gdb, 'events')
    MonitorFails,  \* 'monitor help' may raise another gdb.error (link lost)
    MaxConnects,   \* 'target remote' commands after the first connection
    ExampleArgs    \* arguments of 'uld example set': [int: BOOLEAN, val: Int]

ASSUME /\ Len(Prog) > 0 /\ Prog[Len(Prog)] = "insn"
       /\ HasEvents \in BOOLEAN /\ MonitorFails \in BOOLEAN
       /\ MaxConnects \in Nat

Kinds == {"qemu", "other"}
NONE == "None"                 \* _is_qemu before it is known
PyBool(b) == IF b THEN "True" ELSE "False"   \* Python's bool(value)
FW_VALUE == -1                 \* boot_action as the firmware left it
MAX_EXAMPLE_INDEX == 6
End == Len(Prog) + 1           \* the pc once the program has run off its end
QemuCmds == {"c", "n", "s"}    \* uld qemu continue / next / step

VARIABLES
    conn,        \* "none" or the kind of stub GDB is connected to
    pc,          \* index in Prog of the next instruction
    isQemu,      \* _is_qemu: "None", "True" or "False"
    handlers,    \* registrations of reset_qemu_handler on events.exited
    bootAction,  \* _uld_pstore->boot_action in the target's memory
    last,        \* the command just run and whether it returned normally
    connects     \* reconnections made so far

vars == <<conn, pc, isQemu, handlers, bootAction, last, connects>>

Init ==
    /\ conn \in Kinds
    /\ pc = 1
    /\ isQemu = NONE
    /\ handlers = 0
    /\ bootAction = FW_VALUE
    /\ last = [cmd |-> "none", ok |-> TRUE]
    /\ connects = 0

(***************************************************************************)
(* The cache, as pure operators over [q: _is_qemu, h: handlers].           *)
(***************************************************************************)
\* Mutant: the handler connected on every set, not only the first.
SetQemuAlwaysConnect(c, value) ==
    [q |-> PyBool(value), h |-> IF HasEvents THEN c.h + 1 ELSE c.h]

\* set_qemu: connect the reset handler when the cache was empty, then cache.
SetQemu(c, value) ==
    [q |-> PyBool(value), h |-> IF c.q = NONE /\ HasEvents THEN c.h + 1 ELSE c.h]

\* What 'monitor help' gives on a connection: its help text with or without
\* a qemu-io line, the "not supported by this target" error, or another one.
MonitorAnswers(k) ==
    IF k = "none" THEN {"unsupported"}
    ELSE {IF k = "qemu" THEN "qemu_io" ELSE "no_qemu_io"}
         \cup (IF MonitorFails THEN {"error"} ELSE {})

\* check_qemu for answer a; ok = FALSE when it re-raises.
CheckQemu(c, a) ==
    IF a = "error" THEN [ok |-> FALSE, q |-> c.q, h |-> c.h]
    ELSE LET r == SetQemu(c, a = "qemu_io") IN [ok |-> TRUE, q |-> r.q, h |-> r.h]

\* is_qemu: the cached value, or check_qemu's when there is none.
IsQemu(c, a) ==
    IF c.q # NONE THEN [ok |-> TRUE, q |-> c.q, h |-> c.h] ELSE CheckQemu(c, a)

Cache == [q |-> isQemu, h |-> handlers]

(***************************************************************************)
(* The target.                                                             *)
(***************************************************************************)
\* Mutant: the bkpt test of arm_pc_at_bkpt never true.
StepPastBkptNever(p) == p

\* arm_step_past_bkpt: $pc += 2 when the instruction at pc is a bkpt.
StepPastBkpt(p) == IF Prog[p] = "bkpt" THEN p + 1 ELSE p

\* Where the stub of kind k leaves the pc after GDB's command cmd at p.
Exec(k, cmd, p) ==
    IF k = "qemu" /\ Prog[p] = "bkpt" THEN p
    ELSE IF cmd = "c"
         THEN LET later == {i \in (p + 1)..Len(Prog) : Prog[i] = "bkpt"}
              IN  IF later = {} THEN End ELSE CHOOSE i \in later : \A b \in later : i <= b
         ELSE p + 1

\* The command ran and the target is left at pc p with cache c; running
\* off the end fires exited, whose handlers each empty the cache and
\* disconnect themselves.
Resumed(cmd, c, p) ==
    /\ last' = [cmd |-> cmd, ok |-> TRUE]
    /\ IF p = End
       THEN /\ conn' = "none" /\ pc' = p /\ handlers' = 0
            /\ isQemu' = IF c.h > 0 THEN NONE ELSE c.q
       ELSE /\ pc' = p /\ isQemu' = c.q /\ handlers' = c.h
            /\ UNCHANGED conn
    /\ UNCHANGED <<bootAction, connects>>

\* The command returned without resuming the target: only the cache it set
\* moves, and no exited event fires.
Returned(cmd, c) ==
    /\ last' = [cmd |-> cmd, ok |-> TRUE]
    /\ isQemu' = c.q /\ handlers' = c.h
    /\ UNCHANGED <<conn, pc, bootAction, connects>>

\* A gdb.error ends the command; the cache it already set stays.
Raised(cmd, c) ==
    /\ last' = [cmd |-> cmd, ok |-> FALSE]
    /\ isQemu' = c.q /\ handlers' = c.h
    /\ UNCHANGED <<conn, pc, bootAction, connects>>

(***************************************************************************)
(* CmdUldQEMUContinue / Next / Step: on QEMU, step past a bkpt, then the   *)
(* GDB command.  With no live target, reading the frame or resuming raises.*)
(***************************************************************************)
UldQemuResume(cmd) ==
    \E a \in MonitorAnswers(conn) :
        LET r == IsQemu(Cache, a) IN
        IF ~r.ok \/ conn = "none" THEN Raised(cmd, r)
        ELSE Resumed(cmd, r, Exec(conn, cmd,
                                  IF r.q = "True" THEN StepPastBkpt(pc) ELSE pc))

\* CmdUldQEMUStepi: on QEMU only step past a bkpt; elsewhere 'si'.
UldQemuStepi ==
    \E a \in MonitorAnswers(conn) :
        LET r == IsQemu(Cache, a) IN
        IF ~r.ok \/ conn = "none" THEN Raised("si", r)
        ELSE Resumed("si", r, IF r.q = "True" THEN StepPastBkpt(pc)
                              ELSE Exec(conn, "si", pc))

\* CmdUldQEMUReset: nothing unless QEMU; 'monitor system_reset' restarts
\* the program, and raises on any other stub.
UldQemuReset ==
    \E a \in MonitorAnswers(conn) :
        LET r == IsQemu(Cache, a) IN
        CASE ~r.ok -> Raised("reset", r)
          [] r.q = "False" -> Returned("reset", r)
          [] conn = "qemu" -> Resumed("reset", r, 1)
          [] OTHER -> Raised("reset", r)

\* CmdUldQEMUCheck: check_qemu, whatever the cache holds.
UldQemuCheck ==
    \E a \in MonitorAnswers(conn) :
        LET r == CheckQemu(Cache, a) IN
        IF r.ok THEN Returned("check", r) ELSE Raised("check", r)

\* Mutant: the lower bound of the range check dropped.
ExampleInRangeNoLower(v) == v <= MAX_EXAMPLE_INDEX

\* 0 <= val <= MAX_EXAMPLE_INDEX.
ExampleInRange(v) == v >= 0 /\ v <= MAX_EXAMPLE_INDEX

\* CmdUldExampleSet: an int in range is written to the pstore; writing the
\* target's memory raises without a live target.
UldExampleSet(arg) ==
    LET valid == arg.int /\ ExampleInRange(arg.val) IN
    /\ last' = [cmd |-> "example", ok |-> ~valid \/ conn # "none"]
    /\ IF valid /\ conn # "none" THEN bootAction' = arg.val ELSE UNCHANGED bootAction
    /\ UNCHANGED <<conn, pc, isQemu, handlers, connects>>

\* 'target remote' to a stub: a fresh program; GDB fires no exited event.
Connect(k) ==
    /\ conn = "none" /\ connects < MaxConnects
    /\ conn' = k /\ pc' = 1 /\ connects' = connects + 1
    /\ last' = [cmd |-> "connect", ok |-> TRUE]
    /\ UNCHANGED <<isQemu, handlers, bootAction>>

Next ==
    \/ \E cmd \in QemuCmds : UldQemuResume(cmd)
    \/ UldQemuStepi
    \/ UldQemuReset
    \/ UldQemuCheck
    \/ \E arg \in ExampleArgs : UldExampleSet(arg)
    \/ \E k \in Kinds : Connect(k)

Spec == Init /\ [][Next]_vars

-----------------------------------------------------------------------------
TypeOK ==
    /\ conn \in Kinds \cup {"none"}
    /\ pc \in 1..End
    /\ isQemu \in {NONE, "True", "False"}
    /\ handlers \in Nat
    /\ bootAction \in {FW_VALUE} \cup 0..MAX_EXAMPLE_INDEX
    /\ connects \in 0..MaxConnects

(* The reset handler is registered exactly while _is_qemu holds an answer, *)
(* and never twice: set_qemu connects it only on the first answer, the    *)
(* exited event disconnects it, so a cache emptied by exited is refilled  *)
(* once, whatever mix of check, commands and exits came before.           *)
HandlerRegisteredOnce ==
    HasEvents => handlers = IF isQemu = NONE THEN 0 ELSE 1

(* The purpose of the 'uld qemu' commands (CmdUldQEMUContinue's comment): *)
(* a continue, next or step that returns normally on a live target moves  *)
(* the program on, even when it is stopped at a bkpt on QEMU.             *)
UldCommandsAdvance ==
    [][ (last'.cmd \in QemuCmds /\ last'.ok /\ conn # "none")
          => (pc' # pc \/ conn' = "none") ]_vars

=============================================================================
