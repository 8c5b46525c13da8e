------------------------- MODULE IntegerCallbacks ---------------------------
(***************************************************************************)
(* The callbacks of ext_i_cb.cpp, ext_m_cb.cpp and ext_zbb_cb.cpp, and the *)
(* word that is no instruction.                                            *)
(***************************************************************************)
EXTENDS Hart

(* ExecuteRRRBinOp, ExecuteRRIBinOp, ExecuteRRIShift and the callbacks     *)
(* written out in the same shape.                                          *)
Compute(i) ==
  /\ i.kind \in {"RRR", "RRI"}
  /\ LET operand == IF i.kind = "RRR" THEN GetXReg(i.rs2) ELSE i.imm
     IN  \E v \in BinOpFunc(i.op, GetXReg(i.rs1), operand) : Retire(i.rd, v, NextIp)

LUI(i) == i.kind = "LUI" /\ Retire(i.rd, i.imm, NextIp)

AUIPC(i) == i.kind = "AUIPC" /\ Retire(i.rd, Trunc(ip + i.imm), NextIp)

JAL(i) == i.kind = "JAL" /\ Retire(i.rd, NextIp, Trunc(ip + i.imm))

(* Mutant: bit 0 of the target stays.                                      *)
JALR_odd(i) == i.kind = "JALR" /\ Retire(i.rd, NextIp, EffectiveAddress(i))

(* rs1 is read before rd is written: they may be the same register.        *)
JALR(i) ==
  /\ i.kind = "JALR"
  /\ LET target == EffectiveAddress(i)
     IN  Retire(i.rd, NextIp, target - (target % 2))

(* Mutants: the operands change places; the offset counts from the next    *)
(* instruction.                                                            *)
Branch_swapped(i) ==
  /\ i.kind = "BRANCH"
  /\ ip' = IF BranchPredFunc(i.op, GetXReg(i.rs2), GetXReg(i.rs1)) THEN Trunc(ip + i.imm)
           ELSE NextIp
  /\ UNCHANGED <<memory, xregs, floats, should_stop, status, host>>
Branch_fromNext(i) ==
  /\ i.kind = "BRANCH"
  /\ ip' = IF BranchPredFunc(i.op, GetXReg(i.rs1), GetXReg(i.rs2)) THEN Trunc(NextIp + i.imm)
           ELSE NextIp
  /\ UNCHANGED <<memory, xregs, floats, should_stop, status, host>>

Branch(i) ==
  /\ i.kind = "BRANCH"
  /\ ip' = IF BranchPredFunc(i.op, GetXReg(i.rs1), GetXReg(i.rs2)) THEN Trunc(ip + i.imm)
           ELSE NextIp
  /\ UNCHANGED <<memory, xregs, floats, should_stop, status, host>>

Load(i) ==
  /\ i.kind = "LOAD"
  /\ LET addr == EffectiveAddress(i)
     IN  \/ Faults(addr, Width(i.op)) /\ Abort
         \/ /\ ~ Faults(addr, Width(i.op))
            /\ \E b \in LoadReplies(memory, addr, Width(i.op)) :
                 Retire(i.rd, Loaded(i.op, b), NextIp)

Store(i) ==
  /\ i.kind = "STORE"
  /\ LET addr == EffectiveAddress(i)
         n == Width(i.op)
     IN  \/ Faults(addr, n) /\ Abort
         \/ /\ ~ Faults(addr, n)
            /\ StoreBytes(n, addr, LowBytes(GetXReg(i.rs2), n))
            /\ ip' = NextIp
            /\ UNCHANGED <<xregs, floats, should_stop, host>>

(* FENCE, FENCE_I and EBREAK are logged and do nothing.                    *)
NoOperation(i) ==
  /\ i.kind \in {"FENCE", "EBREAK"}
  /\ ip' = NextIp
  /\ UNCHANGED <<memory, xregs, floats, should_stop, status, host>>

(* The exception is caught by nobody.                                      *)
Terminate(i) ==
  /\ i.kind = "INVALID"
  /\ status' = "terminate"
  /\ UNCHANGED <<memory, ip, xregs, floats, should_stop, host>>
=============================================================================
