------------------------------ MODULE FpTasks ------------------------------
(***************************************************************************)
(* The floating-point unit under a kernel that switches tasks.  The kernel *)
(* is external: it runs with FS Off, saves the registers of a task that it *)
(* leaves when the sstatus of the trap has SD set and FS Dirty, restores   *)
(* those of a task it enters when the task has FS on, and gives a task its *)
(* registers on the first illegal-instruction trap.  own is history: the   *)
(* context that the instructions of each task have produced.               *)
(***************************************************************************)
EXTENDS FpUnit

CONSTANT Task

VARIABLES mode,    \* "user", or the cause of the trap the kernel handles
          cur,     \* the current task
          status,  \* the saved sstatus of each task
          mem,     \* the saved context of each task
          own

vars == <<f_regs, fs, fcsr, mode, cur, status, mem, own>>

Context == [f : [FReg -> Content], c : Fcsr]
Fresh == [f |-> [r \in FReg |-> [boxed |-> FALSE, lo |-> "num"]], c |-> [rm |-> 0, flags |-> 0]]
Now == [f |-> f_regs, c |-> fcsr]

\* What a task knows of a register: the format it was last written in and the
\* value.
Known(fmt, content) == [fmt |-> fmt, v |-> IF fmt = "S" THEN content.lo ELSE content]
Blank == [f |-> [r \in FReg |-> Known("D", Fresh.f[r])], c |-> Fresh.c]

Init ==
    /\ FpInit
    /\ mode = "user"
    /\ cur \in Task
    /\ status = [t \in Task |-> [fs |-> Off, sd |-> FALSE]]
    /\ mem = [t \in Task |-> Fresh]
    /\ own = [t \in Task |-> Blank]

-----------------------------------------------------------------------------
(* Instructions of the current task. *)
Wrote(rd, fmt, content) == own' = [own EXCEPT ![cur].f[rd] = Known(fmt, content)]

UserCompute ==
    \E e \in Effects, rd, a, b \in FReg :
        /\ mode = "user"
        /\ \E result \in Outcomes(e, f_regs[a], f_regs[b]) :
              Compute(e, rd, result) /\ Wrote(rd, e.fmt, result)
        /\ UNCHANGED <<mode, cur, status, mem>>

UserReadsOut ==
    \E e \in Effects : mode = "user" /\ ToInteger(e) /\ UNCHANGED <<mode, cur, status, mem, own>>

\* A load into a unit that is Off leaves the task with what the registers hold.
UserLoad ==
    \E rd \in FReg, fmt \in {"S", "D"} :
        /\ mode = "user"
        /\ \E content \in Results(fmt) :
              /\ LoadFp(rd, content)
              /\ IF fs # Off THEN Wrote(rd, fmt, content)
                 ELSE own' = [own EXCEPT ![cur] =
                                 [f |-> [[r \in FReg |-> Known("D", f_regs[r])]
                                         EXCEPT ![rd] = Known(fmt, content)],
                                  c |-> fcsr]]
        /\ UNCHANGED <<mode, cur, status, mem>>

UserStore == mode = "user" /\ StoreFp /\ UNCHANGED <<mode, cur, status, mem, own>>

UserWritesFcsr ==
    \E field \in {"fflags", "frm", "fcsr"}, v \in Fcsr :
        /\ mode = "user"
        /\ WriteFcsr(field, v)
        /\ own' = IF fs = Off THEN own ELSE
                  CASE field = "fflags" -> [own EXCEPT ![cur].c.flags = v.flags]
                    [] field = "frm" -> [own EXCEPT ![cur].c.rm = v.rm]
                    [] field = "fcsr" -> [own EXCEPT ![cur].c = v]
        /\ UNCHANGED <<mode, cur, status, mem>>

-----------------------------------------------------------------------------
(* The kernel. *)

\* Entry reads sstatus and turns the unit off.
Enter(cause) ==
    /\ mode = "user"
    /\ mode' = cause
    /\ status' = [status EXCEPT ![cur] = ReadStatus]
    /\ WriteStatus([fs |-> Off, sd |-> FALSE])
    /\ UNCHANGED <<f_regs, fcsr, cur, mem, own>>

IllegalInstruction == (\E e \in Effects : Traps(e)) /\ Enter("illegal")

\* Also a fault of a load or a store, which comes before any change.
Interrupt == Enter("interrupt")

\* The first use by a task that has FS Off.
Enable ==
    /\ mode = "illegal" /\ status[cur].fs = Off
    /\ f_regs' = mem[cur].f /\ fcsr' = mem[cur].c
    /\ status' = [status EXCEPT ![cur].fs = Clean]
    /\ mode' = "interrupt"
    /\ own' = [own EXCEPT ![cur] = Blank]
    /\ UNCHANGED <<fs, cur, mem>>

\* A new program in the task, also after an instruction that is undefined.
Exec ==
    /\ mode # "user"
    /\ status' = [status EXCEPT ![cur] = [fs |-> Off, sd |-> FALSE]]
    /\ mem' = [mem EXCEPT ![cur] = Fresh]
    /\ own' = [own EXCEPT ![cur] = Blank]
    /\ mode' = "interrupt"
    /\ UNCHANGED <<f_regs, fs, fcsr, cur>>

Return ==
    /\ mode = "interrupt"
    /\ mode' = "user"
    /\ WriteStatus(status[cur])
    /\ UNCHANGED <<f_regs, fcsr, cur, status, mem, own>>

\* What the kernel does not save is lost: writes of fcsr do not make FS Dirty.
Switch(t) ==
    LET saves == status[cur].sd /\ status[cur].fs = Dirty
    IN  /\ mode = "interrupt" /\ t # cur
        /\ cur' = t
        /\ mem' = IF saves THEN [mem EXCEPT ![cur] = Now] ELSE mem
        /\ own' = IF saves \/ status[cur].fs = Off THEN own ELSE [own EXCEPT ![cur].c = mem[cur].c]
        /\ status' = [u \in Task |->
                         IF (u = cur /\ saves) \/ (u = t /\ status[t].fs # Off)
                         THEN [status[u] EXCEPT !.fs = Clean] ELSE status[u]]
        /\ IF status[t].fs # Off THEN f_regs' = mem[t].f /\ fcsr' = mem[t].c
           ELSE UNCHANGED <<f_regs, fcsr>>
        /\ UNCHANGED <<fs, mode>>

Next ==
    \/ UserCompute \/ UserReadsOut \/ UserLoad \/ UserStore \/ UserWritesFcsr
    \/ IllegalInstruction \/ Interrupt \/ Enable \/ Exec \/ Return
    \/ \E t \in Task : Switch(t)

Spec == Init /\ [][Next]_vars

-----------------------------------------------------------------------------
\* A single is read back as it was written, a double bit by bit.
Holds(content, known) ==
    IF known.fmt = "S" THEN unbox_f32(content) = known.v ELSE content = known.v

\* While a task runs with the unit on, every register holds what the task's
\* last instruction wrote to it, in the format it was written in, and fcsr
\* what the task wrote there, whatever other tasks did in between: each
\* instruction that writes a register makes FS Dirty and so SD set, singles
\* are boxed, and the aliases of fcsr write their own field.  Exceptions: a
\* task that loads a register while the unit is Off takes the other registers
\* as it finds them, and an fcsr write that no Dirty state covers is lost at
\* the next switch.
ContextKept ==
    mode = "user" /\ fs # Off =>
        /\ \A r \in FReg : Holds(f_regs[r], own[cur].f[r])
        /\ fcsr = own[cur].c
=============================================================================
