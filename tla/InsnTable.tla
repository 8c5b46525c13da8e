------------------------------ MODULE InsnTable ------------------------------
(***************************************************************************)
(* The decode table (isa_ext.inc and the five files it includes), with     *)
(* what dispatch.cpp ties to each mnemonic: the shape of its callback, as  *)
(* module Hart names it, and the immediate that the callback asks for.     *)
(* A word is the set of its bits that are 1.                               *)
(***************************************************************************)
EXTENDS Integers, Sequences

(* The masks of the table, by what they cover.                             *)
Opcode == 0 .. 6
Funct3 == Opcode \union (12 .. 14)
Funct7 == Funct3 \union (25 .. 31)
Funct12 == Funct3 \union (20 .. 31)
RoundedF7 == Opcode \union (25 .. 31)
RoundedF12 == Opcode \union (20 .. 31)
Fmt == Opcode \union (25 .. 26)
Whole == 0 .. 31

(* The bits of the number n, from bit low of a word.                       *)
NumberAt(low, n) == {low + b : b \in {c \in 0 .. 11 : (n \div 2 ^ c) % 2 = 1}}

(* A row is a mnemonic and its match value, cut into the bits from 20, the *)
(* funct3 and the opcode.                                                  *)
Rows(mask, kind, imm, rows) ==
  [r \in DOMAIN rows |->
     [mnem |-> rows[r][1], mask |-> mask,
      match |-> NumberAt(20, rows[r][2]) \union NumberAt(12, rows[r][3])
                \union NumberAt(0, rows[r][4]),
      kind |-> kind, imm |-> imm]]

ExtI ==
     Rows(Opcode, "LUI", "U", << <<"LUI", 0, 0, \h37>> >>)
  \o Rows(Opcode, "AUIPC", "U", << <<"AUIPC", 0, 0, \h17>> >>)
  \o Rows(Opcode, "JAL", "J", << <<"JAL", 0, 0, \h6f>> >>)
  \o Rows(Funct3, "JALR", "I", << <<"JALR", 0, 0, \h67>> >>)
  \o Rows(Funct3, "BRANCH", "B", <<
      <<"BEQ", 0, 0, \h63>>, <<"BNE", 0, 1, \h63>>, <<"BLT", 0, 4, \h63>>,
      <<"BGE", 0, 5, \h63>>, <<"BLTU", 0, 6, \h63>>, <<"BGEU", 0, 7, \h63>> >>)
  \o Rows(Funct3, "LOAD", "I", <<
      <<"LB", 0, 0, \h03>>, <<"LH", 0, 1, \h03>>, <<"LW", 0, 2, \h03>>,
      <<"LBU", 0, 4, \h03>>, <<"LHU", 0, 5, \h03>> >>)
  \o Rows(Funct3, "STORE", "S", <<
      <<"SB", 0, 0, \h23>>, <<"SH", 0, 1, \h23>>, <<"SW", 0, 2, \h23>> >>)
  \o Rows(Funct3, "RRI", "I", <<
      <<"ADDI", 0, 0, \h13>>, <<"SLTI", 0, 2, \h13>>, <<"SLTIU", 0, 3, \h13>>,
      <<"XORI", 0, 4, \h13>>, <<"ORI", 0, 6, \h13>>, <<"ANDI", 0, 7, \h13>> >>)
  \o Rows(Funct7, "RRI", "shamt", <<
      <<"SLLI", 0, 1, \h13>>, <<"SRLI", 0, 5, \h13>>, <<"SRAI", \h400, 5, \h13>> >>)
  \o Rows(Funct7, "RRR", "none", <<
      <<"ADD", 0, 0, \h33>>, <<"SUB", \h400, 0, \h33>>, <<"SLL", 0, 1, \h33>>,
      <<"SLT", 0, 2, \h33>>, <<"SLTU", 0, 3, \h33>>, <<"XOR", 0, 4, \h33>>,
      <<"SRL", 0, 5, \h33>>, <<"SRA", \h400, 5, \h33>>, <<"OR", 0, 6, \h33>>,
      <<"AND", 0, 7, \h33>> >>)
  \o Rows(Funct3, "FENCE", "none", <<
      <<"FENCE", 0, 0, \h0f>>, <<"FENCE_I", 0, 1, \h0f>> >>)
  \o Rows(Whole, "ECALL", "none", << <<"ECALL", 0, 0, \h73>> >>)
  \o Rows(Whole, "EBREAK", "none", << <<"EBREAK", \h001, 0, \h73>> >>)

ExtM ==
     Rows(Funct7, "RRR", "none", <<
      <<"MUL", \h020, 0, \h33>>, <<"MULH", \h020, 1, \h33>>, <<"MULHSU", \h020, 2, \h33>>,
      <<"MULHU", \h020, 3, \h33>>, <<"DIV", \h020, 4, \h33>>, <<"DIVU", \h020, 5, \h33>>,
      <<"REM", \h020, 6, \h33>>, <<"REMU", \h020, 7, \h33>> >>)

ExtZbb ==
     Rows(Funct7, "RRR", "none", <<
      <<"ANDN", \h400, 7, \h33>>, <<"ORN", \h400, 6, \h33>>, <<"XNOR", \h400, 4, \h33>>,
      <<"MIN", \h0a0, 4, \h33>>, <<"MINU", \h0a0, 5, \h33>>, <<"MAX", \h0a0, 6, \h33>>,
      <<"MAXU", \h0a0, 7, \h33>> >>)
  \o Rows(Funct12, "RRR", "none", <<
      <<"SEXT_B", \h604, 1, \h13>>, <<"SEXT_H", \h605, 1, \h13>> >>)
  \o Rows(Funct7, "RRR", "none", << <<"ZEXT_H", \h080, 4, \h33>> >>)
  \o Rows(Funct12, "RRR", "none", <<
      <<"CLZ", \h600, 1, \h13>>, <<"CTZ", \h601, 1, \h13>>, <<"CPOP", \h602, 1, \h13>> >>)
  \o Rows(Funct7, "RRR", "none", <<
      <<"ROL", \h600, 1, \h33>>, <<"ROR", \h600, 5, \h33>> >>)
  \o Rows(Funct7, "RRI", "shamt", << <<"RORI", \h600, 5, \h13>> >>)
  \o Rows(Funct12, "RRR", "none", <<
      <<"REV8", \h698, 5, \h13>>, <<"ORC_B", \h287, 5, \h13>> >>)

ExtZicsr ==
     Rows(Funct3, "CSR", "csr", <<
      <<"CSRRW", 0, 1, \h73>>, <<"CSRRS", 0, 2, \h73>>, <<"CSRRC", 0, 3, \h73>>,
      <<"CSRRWI", 0, 5, \h73>>, <<"CSRRSI", 0, 6, \h73>>, <<"CSRRCI", 0, 7, \h73>> >>)

ExtF ==
     Rows(Funct3, "FLW", "I", << <<"FLW", 0, 2, \h07>> >>)
  \o Rows(Funct3, "FSW", "S", << <<"FSW", 0, 2, \h27>> >>)
  \o Rows(RoundedF7, "FARITH", "none", <<
      <<"FADD_S", 0, 0, \h53>>, <<"FSUB_S", \h080, 0, \h53>>, <<"FMUL_S", \h100, 0, \h53>>,
      <<"FDIV_S", \h180, 0, \h53>> >>)
  \o Rows(RoundedF12, "FARITH", "none", << <<"FSQRT_S", \h580, 0, \h53>> >>)
  \o Rows(Fmt, "FARITH", "none", <<
      <<"FMADD_S", 0, 0, \h43>>, <<"FMSUB_S", 0, 0, \h47>>, <<"FNMSUB_S", 0, 0, \h4b>>,
      <<"FNMADD_S", 0, 0, \h4f>> >>)
  \o Rows(Funct7, "FSGN", "none", <<
      <<"FSGNJ_S", \h200, 0, \h53>>, <<"FSGNJN_S", \h200, 1, \h53>>,
      <<"FSGNJX_S", \h200, 2, \h53>> >>)
  \o Rows(Funct7, "FMINMAX", "none", <<
      <<"FMIN_S", \h280, 0, \h53>>, <<"FMAX_S", \h280, 1, \h53>> >>)
  \o Rows(Funct7, "FCMP", "none", <<
      <<"FLE_S", \ha00, 0, \h53>>, <<"FLT_S", \ha00, 1, \h53>>,
      <<"FEQ_S", \ha00, 2, \h53>> >>)
  \o Rows(RoundedF12, "FCVT_TO_X", "none", <<
      <<"FCVT_W_S", \hc00, 0, \h53>>, <<"FCVT_WU_S", \hc01, 0, \h53>> >>)
  \o Rows(RoundedF12, "FCVT_TO_F", "none", <<
      <<"FCVT_S_W", \hd00, 0, \h53>>, <<"FCVT_S_WU", \hd01, 0, \h53>> >>)
  \o Rows(Funct12, "FMV_X_W", "none", << <<"FMV_X_W", \he00, 0, \h53>> >>)
  \o Rows(Funct12, "FCLASS", "none", << <<"FCLASS_S", \he00, 1, \h53>> >>)
  \o Rows(Funct12, "FMV_W_X", "none", << <<"FMV_W_X", \hf00, 0, \h53>> >>)

InsnDecodeTable == ExtI \o ExtM \o ExtZbb \o ExtZicsr \o ExtF
=============================================================================
