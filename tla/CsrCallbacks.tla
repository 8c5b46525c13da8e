--------------------------- MODULE CsrCallbacks -----------------------------
(***************************************************************************)
(* The six callbacks of ext_zicsr_cb.cpp.                                  *)
(***************************************************************************)
EXTENDS Hart

(* The I forms carry a number where the others carry a register.           *)
CsrOperand(i) ==
  IF i.op \in {"CSRRWI", "CSRRSI", "CSRRCI"} THEN i.rs1 ELSE GetXReg(i.rs1)

CsrValue(i, old) ==
  CASE i.op \in {"CSRRW", "CSRRWI"} -> CsrOperand(i)
    [] i.op \in {"CSRRS", "CSRRSI"} -> BitOr(old, CsrOperand(i))
    [] OTHER -> BitAndNot(old, CsrOperand(i))

(* The CSR and rs1 are read before rd, which may be rs1, is written.  In a *)
(* build without asserts a CSR that does not exist reads as 0.             *)
Csr(i) ==
  /\ i.kind = "CSR"
  /\ \/ ~ NDEBUG /\ i.imm \notin KnownCSRs /\ Abort
     \/ /\ NDEBUG \/ i.imm \in KnownCSRs
        /\ LET old == GetCSR(i.imm)
           IN  /\ fcsr' = SetCSR(i.imm, CsrValue(i, old))
               /\ xregs' = SetXReg(i.rd, old)
        /\ ip' = NextIp
        /\ UNCHANGED <<memory, fregs, softfloat, should_stop, status, host>>
=============================================================================
