----------------------------- MODULE Syscalls -------------------------------
(***************************************************************************)
(* CallbackECALL: SyscallHandler, then Step (syscall_handler.cpp).  The    *)
(* bytes a guest reads and writes go to two streams of the host, which may *)
(* deliver or take fewer bytes than asked for, or fail.                    *)
(***************************************************************************)
EXTENDS Hart

kRead == 63
kWrite == 64
kExit == 93

Ecall(i, id) == i.kind = "ECALL" /\ GetXReg(A7) = id

EcallExit(i) ==
  /\ Ecall(i, kExit)
  /\ should_stop' = TRUE
  /\ ip' = NextIp
  /\ UNCHANGED <<memory, xregs, floats, status, host>>

(* What read(2) and write(2) may return.                                   *)
ReadResults(size) ==
  IF size = 0 \/ input = << >> THEN {-1, 0}
  ELSE {-1} \cup {rc \in 1 .. size : rc <= Len(input)}
WriteResults(size) ==
  IF size = 0 THEN {-1, 0}
  ELSE {-1} \cup {wc \in 1 .. size : Len(output) + wc <= OutputRoom}

(* The host has given its bytes when the copy to the guest begins: a copy  *)
(* that an assert stops keeps the bytes before the first one that has no   *)
(* place.                                                                  *)
EcallRead(i) ==
  /\ Ecall(i, kRead)
  /\ \E rc \in ReadResults(GetXReg(A2)) :
       LET count == IF rc < 0 THEN 0 ELSE rc
           addr == GetXReg(A1)
           buf == [j \in 0 .. count - 1 |-> input[j + 1]]
           missing == Missing(memory, addr, count)
       IN  /\ input' = SubSeq(input, count + 1, Len(input))
           /\ \/ /\ NDEBUG \/ missing = {}
                 /\ memory' = CopyBytes(memory, addr, count, buf)
                 /\ IF Spilling(memory, addr, count) = {} THEN UNCHANGED status
                    ELSE Spill
                 /\ xregs' = SetXReg(A0, Trunc(rc))
                 /\ ip' = NextIp
              \/ /\ ~ NDEBUG
                 /\ \E m \in missing :
                      /\ \A j \in missing : m <= j
                      /\ memory' = CopyBytes(memory, addr, m, buf)
                 /\ status' = "abort"
                 /\ UNCHANGED <<xregs, ip>>
  /\ UNCHANGED <<floats, should_stop, output>>

EcallWrite(i) ==
  /\ Ecall(i, kWrite)
  /\ LET size == GetXReg(A2)
         missing == Missing(memory, GetXReg(A1), size)
     IN  \/ ~ NDEBUG /\ missing # {} /\ Abort
         \/ /\ NDEBUG \/ missing = {}
            /\ \E buf \in CopyReplies(memory, GetXReg(A1), size) :
                 \E wc \in WriteResults(size) :
                   /\ output' = output \o [j \in 1 .. wc |-> buf[j - 1]]
                   /\ xregs' = SetXReg(A0, Trunc(wc))
                   /\ ip' = NextIp
                   /\ UNCHANGED <<memory, floats, should_stop, status, input>>

EcallUnknown(i) ==
  /\ i.kind = "ECALL"
  /\ GetXReg(A7) \notin {kRead, kWrite, kExit}
  /\ \/ ~ NDEBUG /\ Abort
     \/ /\ NDEBUG
        /\ ip' = NextIp
        /\ UNCHANGED <<memory, xregs, floats, should_stop, status, host>>
=============================================================================
