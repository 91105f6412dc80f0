------------------------------ MODULE SdProofs ------------------------------
(***************************************************************************)
(* What the counts of the SD card driver are worth, for any numbers of     *)
(* polls, rounds and blocks.                                               *)
(***************************************************************************)
EXTENDS SdCard, SequenceTheorems, TLAPS

-----------------------------------------------------------------------------
(* The state. *)

Status     == {"CMD", "DAT", "WRITE_AVAILABLE", "RESET", "CLOCK", "SCR"}
Interrupts == {"CMD_DONE", "READ_RDY", "WRITE_RDY", "DATA_DONE"} \union Errors
Answers    == {"COMPLETE", "VOLTAGE", "CCS", "ERROR", "APP"}

Kinds == {"status", "int", "loop", "zero", "tried", "scr"}
Codes == {"", "clock", "block", "scr", "first", "second", "GO_IDLE", "SEND_IF_COND", "APP_CMD",
          "SEND_OP_COND", "ALL_SEND_CID", "SEND_REL_ADDR", "CARD_SELECT", "SET_BUS_WIDTH",
          "SET_BLOCKCNT", "STOP_TRANS"} \union DataCommands
Waits == [k : Kinds, mask : SUBSET (Status \union Interrupts), code : Codes, on : {"end", "skip", "app"}]

Calls == {NoCall} \union [op : {"init"}, num : {0}] \union [op : {"read", "write"}, num : Nums]
Phases == [dir : {"none", "read", "write"}, left : Nat, buf : {"empty", "full", "open"}]

TypeOK ==
  /\ call \in Calls /\ todo \in Seq(Waits) /\ cnt \in Nat /\ fail \in DOMAIN Value
  /\ sd_err \in {"SD_OK", "SD_TIMEOUT", "SD_ERROR"}
  /\ sd_rca \in BOOLEAN /\ ccs \in BOOLEAN /\ blkcnt \in BOOLEAN
  /\ tries \in Nat /\ resp \in SUBSET Answers /\ c \in Nat
  /\ stat \in {"", "STA_NOINIT"} /\ ready \in BOOLEAN
  /\ busy \in SUBSET Status /\ int \in SUBSET Interrupts
  /\ phase \in Phases /\ moved \in Nat /\ clash \in BOOLEAN
  /\ ~Running => todo = <<>>

-----------------------------------------------------------------------------
(* What is still to be waited for. *)

\* A wait whose end sends a data command; one that waits for the data lines;
\* one for the end of a transfer.
Data(w) == w.k = "status" /\ w.code \in DataCommands
Asks(w) == w.k = "status" /\ "DAT" \in w.mask
Done(w) == w.k = "int" /\ "DATA_DONE" \in w.mask

Plain == {w \in Waits : ~Data(w)}

\* At most one data command is sent before the next branch of the code.
Alone(s) == \A i, j \in 1 .. Len(s) : Data(s[i]) /\ Data(s[j]) => i = j

\* The data lines are waited for before a data command.
Asked(s) == \A i \in 1 .. Len(s) : Data(s[i]) => \E j \in 1 .. i - 1 : Asks(s[j])

\* A command that may be skipped is skipped whole, and no more than it.
Paired(s) ==
  \A i \in 1 .. Len(s) :
    s[i].k = "status" /\ s[i].on # "end" => i < Len(s) /\ ~Asks(s[i]) /\ ~Asks(s[i + 1])

InitWaits == {w \in Waits : w.code \notin {"block", "READ_SINGLE", "READ_MULTI", "WRITE_SINGLE", "WRITE_MULTI"}}

Rdy(read) == IF read THEN "READ_RDY" ELSE "WRITE_RDY"

DataCode(read, num, blocks) ==
  IF blocks /\ num > 1 THEN (IF read THEN "READ_MULTI" ELSE "WRITE_MULTI")
  ELSE (IF read THEN "READ_SINGLE" ELSE "WRITE_SINGLE")

TransferWaits(read, num, blocks) ==
  {w \in Waits :
     /\ w.k \in {"status", "int"}
     /\ w.code \in {"", "block", "SET_BLOCKCNT", "STOP_TRANS", DataCode(read, num, blocks)}
     /\ w.on = IF w.code = "STOP_TRANS" THEN "skip" ELSE "end"
     /\ w.code = "block" => w.k = "int" /\ w.mask = {Rdy(read)}
     /\ Done(w) => ~read /\ w.code = "" /\ w.mask = {"DATA_DONE"}}

\* A block is still to be moved before the next branch.
HasBlock(s) == s # <<>> /\ s[Len(s)].code = "block"

\* The order of a transfer: the data command, a block, the end, the stop.
Ordered(s) ==
  /\ \A i \in 1 .. Len(s) : s[i].code = "block" => i = Len(s)
  /\ \A i \in 1 .. Len(s) : Data(s[i]) => HasBlock(s)
  /\ \A i \in 1 .. Len(s) : s[i].code = "STOP_TRANS" => ~HasBlock(s)
  /\ \A i \in 1 .. Len(s) : Done(s[i]) => i = 1 /\ ~HasBlock(s)

\* The transfer of the blocks is over.
Past(s) == ~HasBlock(s) /\ \A i \in 1 .. Len(s) : ~Done(s[i])

Form ==
  /\ Alone(todo) /\ Paired(todo)
  /\ call.op = "init" => todo \in Seq(InitWaits)
  /\ Running /\ call.op # "init" =>
       /\ todo \in Seq(TransferWaits(call.op = "read", call.num, ccs))
       /\ Ordered(todo)
       /\ fail = "SD_OK" => IF HasBlock(todo) THEN c < call.num ELSE c = call.num
       /\ ccs /\ c > 0 => todo \in Seq(Plain)

-----------------------------------------------------------------------------
(* The data lines. *)

\* The rounds of the loop that does not wait for the data lines.
Exempt == call.op # "init" /\ ~ccs /\ call.num > 1 /\ c > 0

Lines ==
  /\ "DAT" \notin busy => phase.left = 0
  /\ clash => call.op # "init" /\ call.num > 1 /\ ~ccs
  /\ Running /\ ~Exempt => "DAT" \notin busy \/ Asked(todo)

-----------------------------------------------------------------------------
(* The blocks. *)

Clean == int \cap Errors = {}
Sent  == c > 0 \/ todo \in Seq(Plain)

\* How many blocks the card has been told of.
Told == IF ccs THEN call.num ELSE IF HasBlock(todo) /\ todo \in Seq(Plain) THEN c + 1 ELSE c

Reading ==
  /\ moved = c /\ phase.dir # "write"
  /\ "READ_RDY" \in int /\ Clean => phase.dir = "read" /\ phase.buf = "full"

Writing ==
  /\ moved + phase.left = Told
  /\ phase.buf # "empty" => phase.left > 0
  /\ phase.dir = "write" \/ phase = NoPhase
  /\ "WRITE_RDY" \in int => phase.buf = "open"
  /\ "DATA_DONE" \in int => phase = NoPhase

Written == moved = call.num /\ phase.dir # "write"

Moving ==
  fail = "SD_OK" /\ ~clash /\ Sent =>
    /\ call.op = "read" => Reading
    /\ call.op = "write" => IF Past(todo) THEN Written ELSE Clean => Writing

IInv == TypeOK /\ Form /\ Lines /\ Moving

-----------------------------------------------------------------------------
(* Lemmas on sequences of waits. *)

\* The elements of a concatenation.
LEMMA Cat ==
  ASSUME NEW S, NEW s \in Seq(S), NEW t \in Seq(S)
  PROVE  /\ s \o t \in Seq(S) /\ Len(s \o t) = Len(s) + Len(t)
         /\ \A i \in 1 .. Len(s) : (s \o t)[i] = s[i]
         /\ \A i \in 1 .. Len(t) : (s \o t)[Len(s) + i] = t[i]
         /\ \A i \in 1 .. Len(s \o t) : i > Len(s) => i - Len(s) \in 1 .. Len(t) /\ (s \o t)[i] = t[i - Len(s)]
OBVIOUS

\* The elements of a tail.
LEMMA TailOf ==
  ASSUME NEW S, NEW s \in Seq(S), s # <<>>
  PROVE  /\ Tail(s) \in Seq(S) /\ Len(Tail(s)) = Len(s) - 1 /\ Len(s) \in Nat \ {0}
         /\ \A i \in 1 .. Len(Tail(s)) : Tail(s)[i] = s[i + 1]
         /\ Head(s) = s[1] /\ s[1] \in S
OBVIOUS

\* What a sequence of waits keeps when another comes behind it.
LEMMA PairedCat ==
  ASSUME NEW s \in Seq(Waits), NEW t \in Seq(Waits), Paired(s), Paired(t)
  PROVE  Paired(s \o t)
<1>1. SUFFICES ASSUME NEW i \in 1 .. Len(s \o t), (s \o t)[i].k = "status", (s \o t)[i].on # "end"
               PROVE  i < Len(s \o t) /\ ~Asks((s \o t)[i]) /\ ~Asks((s \o t)[i + 1])
  BY DEF Paired
<1>2. CASE i <= Len(s)
  <2>1. (s \o t)[i] = s[i] /\ i \in 1 .. Len(s)
    BY <1>2, Cat
  <2>2. i < Len(s) /\ ~Asks(s[i]) /\ ~Asks(s[i + 1])
    BY <1>1, <2>1 DEF Paired
  <2>3. (s \o t)[i + 1] = s[i + 1] /\ Len(s \o t) = Len(s) + Len(t)
    BY <2>2, Cat
  <2> QED BY <2>1, <2>2, <2>3
<1>3. CASE i > Len(s)
  <2>1. i - Len(s) \in 1 .. Len(t) /\ (s \o t)[i] = t[i - Len(s)]
    BY <1>3, Cat
  <2>2. i - Len(s) < Len(t) /\ ~Asks(t[i - Len(s)]) /\ ~Asks(t[i - Len(s) + 1])
    BY <1>1, <2>1 DEF Paired
  <2>3. i < Len(s \o t) /\ i + 1 \in 1 .. Len(s \o t) /\ (s \o t)[i + 1] = t[i + 1 - Len(s)]
    BY <2>1, <2>2, <1>3, Cat
  <2> QED BY <2>1, <2>2, <2>3
<1> QED BY <1>2, <1>3

\* A data command stays alone between waits that send none.
LEMMA AloneCat ==
  ASSUME NEW s \in Seq(Waits), NEW t \in Seq(Waits),
         \/ s \in Seq(Plain) /\ Alone(t)
         \/ Alone(s) /\ t \in Seq(Plain)
  PROVE  Alone(s \o t)
<1>1. SUFFICES ASSUME NEW i \in 1 .. Len(s \o t), NEW j \in 1 .. Len(s \o t),
                      Data((s \o t)[i]), Data((s \o t)[j])
               PROVE  i = j
  BY DEF Alone
<1>2. \A u \in Seq(Plain) : \A n \in 1 .. Len(u) : ~Data(u[n])
  BY DEF Plain
<1>3. CASE s \in Seq(Plain) /\ Alone(t)
  <2>1. i > Len(s) /\ j > Len(s)
    BY <1>1, <1>2, <1>3, Cat
  <2>2. Data(t[i - Len(s)]) /\ Data(t[j - Len(s)]) /\ i - Len(s) \in 1 .. Len(t) /\ j - Len(s) \in 1 .. Len(t)
    BY <1>1, <2>1, Cat
  <2> QED BY <2>2, <1>3 DEF Alone
<1>4. CASE Alone(s) /\ t \in Seq(Plain)
  <2>1. i <= Len(s) /\ j <= Len(s)
    BY <1>1, <1>2, <1>4, Cat
  <2>2. Data(s[i]) /\ Data(s[j]) /\ i \in 1 .. Len(s) /\ j \in 1 .. Len(s)
    BY <1>1, <2>1, Cat
  <2> QED BY <2>2, <1>4 DEF Alone
<1> QED BY <1>3, <1>4

\* A wait for the data lines guards what comes behind it.
LEMMA AskedCat ==
  ASSUME NEW s \in Seq(Waits), NEW t \in Seq(Waits),
         \/ s \in Seq(Plain) /\ \E j \in 1 .. Len(s) : Asks(s[j])
         \/ Asked(s) /\ t \in Seq(Plain)
  PROVE  Asked(s \o t)
<1>1. SUFFICES ASSUME NEW i \in 1 .. Len(s \o t), Data((s \o t)[i])
               PROVE  \E j \in 1 .. i - 1 : Asks((s \o t)[j])
  BY DEF Asked
<1>2. \A u \in Seq(Plain) : \A n \in 1 .. Len(u) : ~Data(u[n])
  BY DEF Plain
<1>3. CASE s \in Seq(Plain) /\ \E j \in 1 .. Len(s) : Asks(s[j])
  <2>1. i > Len(s)
    BY <1>1, <1>2, <1>3, Cat
  <2>2. PICK j \in 1 .. Len(s) : Asks(s[j])
    BY <1>3
  <2>3. (s \o t)[j] = s[j] /\ j \in 1 .. i - 1
    BY <2>1, Cat
  <2> QED BY <2>2, <2>3
<1>4. CASE Asked(s) /\ t \in Seq(Plain)
  <2>1. i <= Len(s)
    BY <1>1, <1>2, <1>4, Cat
  <2>2. Data(s[i]) /\ i \in 1 .. Len(s)
    BY <1>1, <2>1, Cat
  <2>3. PICK j \in 1 .. i - 1 : Asks(s[j])
    BY <2>2, <1>4 DEF Asked
  <2>4. (s \o t)[j] = s[j]
    BY <2>2, Cat
  <2> QED BY <2>3, <2>4
<1> QED BY <1>3, <1>4

-----------------------------------------------------------------------------
(* The programs of sd_init(). *)

\* Waits of sd_init() none of which sends a data command.
Bare == {w \in InitWaits : ~Data(w)}
Piece(s) == s \in Seq(Bare) /\ Paired(s)

\* Pieces are sequences of waits, and join to pieces.
LEMMA PieceType ==
  ASSUME NEW s, Piece(s)
  PROVE  s \in Seq(Waits) /\ s \in Seq(Plain) /\ s \in Seq(InitWaits) /\ Alone(s) /\ Asked(s) /\ Paired(s)
<1>1. Bare \subseteq Waits /\ Bare \subseteq Plain /\ Bare \subseteq InitWaits
  BY DEF Bare, Plain, InitWaits
<1>2. s \in Seq(Waits) /\ s \in Seq(Plain) /\ s \in Seq(InitWaits) /\ Paired(s)
  BY <1>1 DEF Piece
<1>3. \A i \in 1 .. Len(s) : ~Data(s[i])
  BY <1>2 DEF Plain
<1> QED BY <1>2, <1>3 DEF Alone, Asked

\* Pieces join to pieces.
LEMMA PieceCat ==
  ASSUME NEW s, NEW t, Piece(s), Piece(t)
  PROVE  Piece(s \o t)
BY PieceType, PairedCat DEF Piece

\* A single wait that sends nothing is a piece.
LEMMA WaitPiece ==
  ASSUME NEW k \in Kinds, NEW mask \in SUBSET (Status \union Interrupts),
         NEW code \in Codes \ {"block", "READ_SINGLE", "READ_MULTI", "WRITE_SINGLE", "WRITE_MULTI"},
         k = "status" => code \notin DataCommands
  PROVE  Piece(Wait(k, mask, code, "end"))
<1> DEFINE w == [k |-> k, mask |-> mask, code |-> code, on |-> "end"]
<1>1. w \in Bare
  BY DEF Bare, InitWaits, Waits, Data
<1>2. <<w>> \in Seq(Bare) /\ Len(<<w>>) = 1 /\ <<w>>[1] = w
  BY <1>1
<1>3. Paired(<<w>>)
  BY <1>2 DEF Paired
<1> QED BY <1>2, <1>3 DEF Piece, Wait

\* The two waits of a command.
First(code, on)  == [k |-> "status", mask |-> {"CMD"}, code |-> code, on |-> on]
Second(code, on) == [k |-> "int", mask |-> {"CMD_DONE"}, code |-> code, on |-> on]

\* sd_cmd() is two waits: for the command line, then for the command.
LEMMA CmdIs ==
  ASSUME NEW S, NEW code, NEW on, First(code, on) \in S, Second(code, on) \in S
  PROVE  /\ sd_cmd(code, on) \in Seq(S) /\ Len(sd_cmd(code, on)) = 2
         /\ sd_cmd(code, on)[1] = First(code, on) /\ sd_cmd(code, on)[2] = Second(code, on)
<1>1. sd_cmd(code, on) = <<First(code, on)>> \o <<Second(code, on)>>
  BY DEF sd_cmd, Wait, First, Second
<1>2. <<First(code, on)>> \in Seq(S) /\ <<Second(code, on)>> \in Seq(S)
  OBVIOUS
<1> QED BY <1>1, <1>2

\* Both are waits.
LEMMA CmdWaits ==
  ASSUME NEW code \in Codes, NEW on \in {"end", "skip", "app"}
  PROVE  /\ First(code, on) \in Waits /\ Second(code, on) \in Waits
         /\ First(code, on).code = code /\ Second(code, on).code = code
         /\ First(code, on).k = "status" /\ First(code, on).mask = {"CMD"} /\ First(code, on).on = on
         /\ Second(code, on).k = "int" /\ Second(code, on).mask = {"CMD_DONE"} /\ Second(code, on).on = on
BY DEF First, Second, Waits, Kinds, Status, Interrupts

\* A command, skipped or not, is paired.
LEMMA CmdForm ==
  ASSUME NEW code \in Codes, NEW on \in {"end", "skip", "app"}
  PROVE  sd_cmd(code, on) \in Seq(Waits) /\ Paired(sd_cmd(code, on)) /\ Alone(sd_cmd(code, on))
<1> DEFINE s == sd_cmd(code, on)
<1>1. s \in Seq(Waits) /\ Len(s) = 2 /\ s[1] = First(code, on) /\ s[2] = Second(code, on)
  BY CmdWaits, CmdIs
<1>2. ~Asks(s[1]) /\ ~Asks(s[2]) /\ ~Data(s[2]) /\ s[2].k # "status"
  BY <1>1, CmdWaits DEF Asks, Data
<1> HIDE DEF s
<1>3. \A i \in 1 .. Len(s) : i = 1 \/ i = 2
  BY <1>1
<1>4. Paired(s)
  BY <1>1, <1>2, <1>3 DEF Paired
<1>5. Alone(s)
  BY <1>2, <1>3 DEF Alone
<1> QED BY <1>1, <1>4, <1>5 DEF s

\* A command that is no data command is a piece.
LEMMA CmdPiece ==
  ASSUME NEW code \in Codes \ (DataCommands \union {"block"}), NEW on \in {"end", "skip", "app"}
  PROVE  Piece(sd_cmd(code, on))
<1>1. First(code, on) \in Bare /\ Second(code, on) \in Bare
  BY CmdWaits DEF Bare, InitWaits, Data, DataCommands
<1> QED BY <1>1, CmdIs, CmdForm DEF Piece

\* The parts of sd_init() before the card has answered.
LEMMA InitPieces == Piece(sd_clk) /\ Piece(OpCond) /\ Piece(sd_init) /\ Piece(AppCmd("SET_BUS_WIDTH", "end"))
<1>1. /\ Piece(Wait("loop", {"CMD", "DAT"}, "clock", "end")) /\ Piece(Wait("loop", {"CLOCK"}, "", "end"))
      /\ Piece(Wait("tried", {}, "", "end")) /\ Piece(Wait("loop", {"RESET"}, "", "end"))
      /\ Piece(Wait("zero", {}, "", "end"))
  BY WaitPiece DEF Kinds, Codes, Status, Interrupts
<1>2. Piece(sd_clk)
  BY <1>1, PieceCat DEF sd_clk
<1>3. /\ Piece(sd_cmd("APP_CMD", "app")) /\ Piece(sd_cmd("SEND_OP_COND", "skip"))
      /\ Piece(sd_cmd("SET_BUS_WIDTH", "end"))
      /\ Piece(sd_cmd("GO_IDLE", "end")) /\ Piece(sd_cmd("SEND_IF_COND", "end"))
  BY CmdPiece DEF Codes, DataCommands
<1>4. Piece(AppCmd("SEND_OP_COND", "skip")) /\ Piece(AppCmd("SET_BUS_WIDTH", "end"))
  BY <1>3, PieceCat DEF AppCmd
<1>5. Piece(OpCond)
  BY <1>1, <1>4, PieceCat DEF OpCond
<1>6. Piece(sd_init)
  <2>1. Piece(Wait("loop", {"RESET"}, "", "end") \o sd_clk)
    BY <1>1, <1>2, PieceCat
  <2>2. Piece(Wait("loop", {"RESET"}, "", "end") \o sd_clk \o Wait("zero", {}, "", "end"))
    BY <1>1, <2>1, PieceCat
  <2>3. Piece(Wait("loop", {"RESET"}, "", "end") \o sd_clk \o Wait("zero", {}, "", "end") \o sd_cmd("GO_IDLE", "end"))
    BY <1>3, <2>2, PieceCat
  <2>4. Piece(Wait("loop", {"RESET"}, "", "end") \o sd_clk \o Wait("zero", {}, "", "end") \o sd_cmd("GO_IDLE", "end")
              \o sd_cmd("SEND_IF_COND", "end"))
    BY <1>3, <2>3, PieceCat
  <2> QED BY <1>5, <2>4, PieceCat DEF sd_init
<1> QED BY <1>2, <1>4, <1>5, <1>6

\* What an initialisation may hold.
Sound(s) == s \in Seq(InitWaits) /\ Paired(s) /\ Alone(s) /\ Asked(s)

\* The rest of sd_init(): SEND_SCR is its data command.
LEMMA IdentifySound == Sound(Identify)
<1> DEFINE lines == sd_status({"DAT"})
           before == sd_cmd("ALL_SEND_CID", "skip") \o sd_cmd("SEND_REL_ADDR", "end") \o sd_clk
                     \o sd_cmd("CARD_SELECT", "end") \o lines
           app  == sd_cmd("APP_CMD", "app")
           scr  == sd_cmd("SEND_SCR", "end")
           w1   == Wait("int", {"READ_RDY"}, "scr", "end")
           w2   == Wait("scr", {}, "first", "end")
           w3   == Wait("scr", {}, "second", "end")
<1>1. /\ Piece(sd_cmd("ALL_SEND_CID", "skip")) /\ Piece(sd_cmd("SEND_REL_ADDR", "end"))
      /\ Piece(sd_cmd("CARD_SELECT", "end")) /\ Piece(app)
  BY CmdPiece DEF Codes, DataCommands
<1>2. Piece(lines) /\ Piece(w1) /\ Piece(w2) /\ Piece(w3)
  <2>1. "" \notin DataCommands
    BY DEF DataCommands
  <2> QED BY <2>1, WaitPiece DEF Kinds, Codes, Status, Interrupts, sd_status
<1>3. Len(lines) = 1 /\ Asks(lines[1])
  BY DEF sd_status, Wait, Asks
<1>4. Piece(before) /\ \E j \in 1 .. Len(before) : Asks(before[j])
  <2> DEFINE p == sd_cmd("ALL_SEND_CID", "skip") \o sd_cmd("SEND_REL_ADDR", "end") \o sd_clk
                  \o sd_cmd("CARD_SELECT", "end")
  <2>1. Piece(p)
    <3>1. Piece(sd_cmd("ALL_SEND_CID", "skip") \o sd_cmd("SEND_REL_ADDR", "end"))
      BY <1>1, PieceCat
    <3>2. Piece(sd_cmd("ALL_SEND_CID", "skip") \o sd_cmd("SEND_REL_ADDR", "end") \o sd_clk)
      BY <3>1, InitPieces, PieceCat
    <3> QED BY <3>2, <1>1, PieceCat
  <2> HIDE DEF p, lines
  <2>2. Piece(p \o lines)
    BY <2>1, <1>2, PieceCat
  <2>3. p \in Seq(Waits) /\ lines \in Seq(Waits)
    BY <2>1, <1>2, PieceType
  <2>4. Len(p) + 1 \in 1 .. Len(p \o lines) /\ (p \o lines)[Len(p) + 1] = lines[1]
    <3>1. Len(p \o lines) = Len(p) + Len(lines) /\ Len(p) \in Nat
      BY <2>3, Cat
    <3>2. 1 \in 1 .. Len(lines)
      BY <1>3
    <3> QED BY <2>3, <1>3, <3>1, <3>2, Cat
  <2> QED BY <2>2, <2>4, <1>3 DEF p
<1>5. scr \in Seq(InitWaits) /\ scr \in Seq(Waits) /\ Paired(scr) /\ Alone(scr)
  <2>1. scr \in Seq(InitWaits)
    <3>1. "SEND_SCR" \in Codes
      BY DEF Codes, DataCommands
    <3>2. First("SEND_SCR", "end") \in InitWaits /\ Second("SEND_SCR", "end") \in InitWaits
      BY <3>1, CmdWaits DEF InitWaits
    <3> QED BY <3>2, CmdIs
  <2> QED BY <2>1, CmdForm DEF Codes, DataCommands
<1>6. Identify = before \o (app \o scr) \o w1 \o w2 \o w3
  BY DEF Identify, AppCmd
<1> HIDE DEF lines, before, app, scr, w1, w2, w3
<1>7. /\ before \in Seq(Waits) /\ before \in Seq(Plain) /\ before \in Seq(InitWaits) /\ Paired(before)
      /\ app \in Seq(Waits) /\ app \in Seq(Plain) /\ app \in Seq(InitWaits) /\ Paired(app)
  BY <1>1, <1>4, PieceType
<1>8. app \o scr \in Seq(Waits) /\ app \o scr \in Seq(InitWaits) /\ Paired(app \o scr) /\ Alone(app \o scr)
  BY <1>5, <1>7, PairedCat, AloneCat
<1>9. Sound(before \o (app \o scr)) /\ before \o (app \o scr) \in Seq(Waits)
  <2> DEFINE t == app \o scr
  <2>1. t \in Seq(Waits) /\ t \in Seq(InitWaits) /\ Paired(t) /\ Alone(t)
    BY <1>8
  <2> HIDE DEF t
  <2>2. before \o t \in Seq(Waits) /\ before \o t \in Seq(InitWaits)
    BY <1>7, <2>1
  <2>3. Paired(before \o t) /\ Alone(before \o t)
    BY <1>7, <2>1, PairedCat, AloneCat
  <2>4. Asked(before \o t)
    BY <1>4, <1>7, <2>1, AskedCat
  <2> QED BY <2>2, <2>3, <2>4 DEF Sound, t
<1>10. ASSUME NEW s \in Seq(Waits), NEW t, Sound(s), Piece(t)
       PROVE  Sound(s \o t) /\ s \o t \in Seq(Waits)
  <2>1. t \in Seq(Waits) /\ t \in Seq(Plain) /\ t \in Seq(InitWaits) /\ Paired(t)
    BY <1>10, PieceType
  <2>2. s \o t \in Seq(InitWaits) /\ s \o t \in Seq(Waits)
    BY <1>10, <2>1 DEF Sound
  <2> QED BY <1>10, <2>1, <2>2, PairedCat, AloneCat, AskedCat DEF Sound
<1>11. Sound(before \o (app \o scr) \o w1) /\ before \o (app \o scr) \o w1 \in Seq(Waits)
  BY <1>9, <1>10, <1>2
<1>12. Sound(before \o (app \o scr) \o w1 \o w2) /\ before \o (app \o scr) \o w1 \o w2 \in Seq(Waits)
  BY <1>11, <1>10, <1>2
<1> QED BY <1>6, <1>10, <1>12, <1>2

-----------------------------------------------------------------------------
(* The programs of a transfer. *)

\* What the parts of a transfer have in common.
Keeps(s, read, num) ==
  s \in Seq(TransferWaits(read, num, ccs)) /\ Paired(s) /\ Alone(s) /\ Ordered(s)

HasData(s) == \E i \in 1 .. Len(s) : Data(s[i])

\* A sequence over a set is one over a larger set.
LEMMA Widen ==
  ASSUME NEW A, NEW B, A \subseteq B, NEW s \in Seq(A)
  PROVE  s \in Seq(B)
OBVIOUS

\* A transfer's waits are waits.
LEMMA TransferType ==
  ASSUME NEW read \in BOOLEAN, NEW num, NEW s \in Seq(TransferWaits(read, num, ccs))
  PROVE  s \in Seq(Waits)
<1>1. TransferWaits(read, num, ccs) \subseteq Waits
  BY DEF TransferWaits
<1> QED BY <1>1, Widen

\* The last wait of a sequence.
LEMMA LastOf ==
  ASSUME NEW S, NEW s \in Seq(S), NEW n \in Nat, Len(s) = n
  PROVE  HasBlock(s) <=> n # 0 /\ s[n].code = "block"
<1>1. s = <<>> <=> n = 0
  OBVIOUS
<1> QED BY <1>1 DEF HasBlock

\* A sequence with no data command.
LEMMA AllPlain ==
  ASSUME NEW s \in Seq(Waits), \A i \in 1 .. Len(s) : ~Data(s[i])
  PROVE  s \in Seq(Plain)
<1>1. \A i \in 1 .. Len(s) : s[i] \in Plain
  BY DEF Plain
<1> QED BY <1>1

\* The indices of short sequences.
LEMMA Indices ==
  ASSUME NEW s
  PROVE  /\ Len(s) = 0 => \A i \in 1 .. Len(s) : FALSE
         /\ Len(s) = 1 => 1 \in 1 .. Len(s) /\ \A i \in 1 .. Len(s) : i = 1
         /\ Len(s) = 2 => 1 \in 1 .. Len(s) /\ 2 \in 1 .. Len(s) /\ \A i \in 1 .. Len(s) : i = 1 \/ i = 2
         /\ Len(s) = 3 => 1 \in 1 .. Len(s) /\ 3 \in 1 .. Len(s) /\ \A i \in 1 .. Len(s) : i = 1 \/ i = 2 \/ i = 3
<1>1. /\ \A i \in 1 .. 0 : FALSE
      /\ \A i \in 1 .. 1 : i = 1
      /\ \A i \in 1 .. 2 : i = 1 \/ i = 2
      /\ \A i \in 1 .. 3 : i = 1 \/ i = 2 \/ i = 3
      /\ 1 \in 1 .. 1 /\ 1 \in 1 .. 2 /\ 2 \in 1 .. 2 /\ 1 \in 1 .. 3 /\ 3 \in 1 .. 3
  OBVIOUS
<1>2. ASSUME NEW n, Len(s) = n PROVE 1 .. Len(s) = 1 .. n
  BY <1>2
<1>3. Len(s) = 0 => 1 .. Len(s) = 1 .. 0
  BY <1>2
<1>4. Len(s) = 1 => 1 .. Len(s) = 1 .. 1
  BY <1>2
<1>5. Len(s) = 2 => 1 .. Len(s) = 1 .. 2
  BY <1>2
<1>6. Len(s) = 3 => 1 .. Len(s) = 1 .. 3
  BY <1>2
<1> QED BY <1>1, <1>3, <1>4, <1>5, <1>6, Zenon

\* The waits of a command of a transfer.
LEMMA CmdTransfer ==
  ASSUME NEW read \in BOOLEAN, NEW num, NEW code \in {"SET_BLOCKCNT", "STOP_TRANS", DataCode(read, num, ccs)}
  PROVE  LET on == IF code = "STOP_TRANS" THEN "skip" ELSE "end"
         IN  First(code, on) \in TransferWaits(read, num, ccs) /\ Second(code, on) \in TransferWaits(read, num, ccs)
<1> DEFINE on == IF code = "STOP_TRANS" THEN "skip" ELSE "end"
<1>1. DataCode(read, num, ccs) \in Codes /\ code \in Codes /\ code # "block"
  BY DEF DataCode, Codes, DataCommands
<1>2. on \in {"end", "skip", "app"}
  OBVIOUS
<1>3. ~Done(First(code, on)) /\ ~Done(Second(code, on))
  BY <1>1, <1>2, CmdWaits DEF Done
<1>4. /\ First(code, on) \in Waits /\ First(code, on).code = code /\ First(code, on).k = "status" /\ First(code, on).on = on
      /\ Second(code, on) \in Waits /\ Second(code, on).code = code /\ Second(code, on).k = "int" /\ Second(code, on).on = on
  BY <1>1, <1>2, CmdWaits
<1>5. First(code, on) \in TransferWaits(read, num, ccs)
  BY <1>1, <1>3, <1>4 DEF TransferWaits
<1>6. Second(code, on) \in TransferWaits(read, num, ccs)
  BY <1>1, <1>3, <1>4 DEF TransferWaits
<1> QED BY <1>5, <1>6

\* What comes before a data command.
Before(s, read, num) ==
  /\ s \in Seq(TransferWaits(read, num, ccs)) /\ Paired(s)
  /\ \A i \in 1 .. Len(s) : ~Data(s[i]) /\ s[i].code \notin {"block", "STOP_TRANS"} /\ ~Done(s[i])

\* What a transfer does before its core leaves the core's shape alone.
LEMMA BeforeCat ==
  ASSUME NEW read \in BOOLEAN, NEW num, NEW s, NEW t,
         Before(s, read, num), Keeps(t, read, num), HasBlock(t), HasData(t)
  PROVE  /\ Keeps(s \o t, read, num) /\ HasBlock(s \o t) /\ HasData(s \o t)
         /\ s \o t \in Seq(Waits) /\ s \in Seq(Plain)
<1> DEFINE T == TransferWaits(read, num, ccs)
           u == s \o t
<1>1. s \in Seq(T) /\ t \in Seq(T) /\ s \in Seq(Waits) /\ t \in Seq(Waits)
  BY TransferType DEF Before, Keeps
<1>2. s \in Seq(Plain)
  BY <1>1 DEF Before, Plain
<1>3. Paired(u) /\ Alone(u)
  BY <1>1, <1>2, PairedCat, AloneCat DEF Before, Keeps
<1> HIDE DEF T
<1>4. /\ u \in Seq(T) /\ u \in Seq(Waits) /\ Len(u) = Len(s) + Len(t) /\ Len(s) \in Nat /\ Len(t) \in Nat
      /\ \A i \in 1 .. Len(s) : u[i] = s[i]
      /\ \A i \in 1 .. Len(u) : i > Len(s) => i - Len(s) \in 1 .. Len(t) /\ u[i] = t[i - Len(s)]
      /\ \A i \in 1 .. Len(t) : u[Len(s) + i] = t[i]
  BY <1>1, Cat
<1> HIDE DEF u
<1>5. HasBlock(u)
  <2>1. Len(t) \in 1 .. Len(t) /\ t[Len(t)].code = "block"
    BY <1>1 DEF HasBlock
  <2> QED BY <1>1, <1>4, <2>1 DEF HasBlock
<1>6. HasData(u)
  <2>1. PICK i \in 1 .. Len(t) : Data(t[i])
    BY DEF HasData
  <2> QED BY <1>4, <2>1 DEF HasData
<1>7. Ordered(u)
  <2>1. ASSUME NEW i \in 1 .. Len(u)
        PROVE  /\ u[i].code = "block" => i = Len(u)
               /\ u[i].code # "STOP_TRANS" /\ ~Done(u[i])
    <3>1. CASE i <= Len(s)
      <4>1. i \in 1 .. Len(s) /\ u[i] = s[i]
        BY <1>4, <3>1
      <4> QED BY <4>1 DEF Before
    <3>2. CASE i > Len(s)
      <4>1. i - Len(s) \in 1 .. Len(t) /\ u[i] = t[i - Len(s)]
        BY <1>4, <3>2
      <4>2. t[i - Len(s)].code = "block" => i - Len(s) = Len(t)
        BY <4>1 DEF Keeps, Ordered
      <4>3. t[i - Len(s)].code # "STOP_TRANS" /\ ~Done(t[i - Len(s)])
        BY <4>1 DEF Keeps, Ordered
      <4> QED BY <4>1, <4>2, <4>3, <1>4
    <3> QED BY <3>1, <3>2, <1>4
  <2> QED BY <2>1, <1>5 DEF Ordered
<1> QED BY <1>2, <1>3, <1>4, <1>5, <1>6, <1>7 DEF Keeps, T, u

\* A data command and its block.
Core(read, num) == sd_cmd(DataCode(read, num, ccs), "end") \o Block(Rdy(read))

\* The wait for a block.
LEMMA BlockIs ==
  ASSUME NEW read \in BOOLEAN, NEW num
  PROVE  /\ Block(Rdy(read)) \in Seq(TransferWaits(read, num, ccs)) /\ Len(Block(Rdy(read))) = 1
         /\ Block(Rdy(read))[1].k = "int" /\ Block(Rdy(read))[1].code = "block"
         /\ Block(Rdy(read))[1].mask = {Rdy(read)}
<1> DEFINE w == [k |-> "int", mask |-> {Rdy(read)}, code |-> "block", on |-> "end"]
<1>1. w \in TransferWaits(read, num, ccs)
  BY DEF TransferWaits, Waits, Kinds, Codes, Interrupts, Rdy, Done
<1>2. Block(Rdy(read)) = <<w>>
  BY DEF Block, Wait
<1> HIDE DEF w
<1>3. <<w>> \in Seq(TransferWaits(read, num, ccs)) /\ Len(<<w>>) = 1 /\ <<w>>[1] = w
  BY <1>1
<1> QED BY <1>2, <1>3 DEF w

\* The core of a transfer: the data command, and the wait for the first block.
LEMMA CoreKeeps ==
  ASSUME NEW read \in BOOLEAN, NEW num
  PROVE  Keeps(Core(read, num), read, num) /\ HasBlock(Core(read, num)) /\ HasData(Core(read, num))
<1> DEFINE T == TransferWaits(read, num, ccs)
           code == DataCode(read, num, ccs)
           u == Core(read, num)
           b == Block(Rdy(read))
<1>1. code \in Codes /\ code \in DataCommands /\ code \notin {"block", "STOP_TRANS", ""}
  BY DEF DataCode, Codes, DataCommands
<1>2. First(code, "end") \in T /\ Second(code, "end") \in T
  BY <1>1, CmdTransfer
<1>3. sd_cmd(code, "end") \in Seq(T) /\ Len(sd_cmd(code, "end")) = 2
      /\ sd_cmd(code, "end")[1] = First(code, "end") /\ sd_cmd(code, "end")[2] = Second(code, "end")
  BY <1>2, CmdIs
<1>4. b \in Seq(T) /\ Len(b) = 1 /\ b[1].k = "int" /\ b[1].code = "block" /\ b[1].mask = {Rdy(read)}
  BY BlockIs
<1>5. sd_cmd(code, "end") \in Seq(Waits) /\ b \in Seq(Waits)
  BY <1>3, <1>4, TransferType
<1>6. Paired(sd_cmd(code, "end")) /\ Alone(sd_cmd(code, "end"))
  BY <1>1, CmdForm
<1> HIDE DEF T, code
<1>7. Paired(b) /\ b \in Seq(Plain)
  <2>1. 1 \in 1 .. Len(b) /\ \A i \in 1 .. Len(b) : i = 1
    BY <1>4, Indices
  <2>2. ~Data(b[1]) /\ b[1].k # "status"
    BY <1>4 DEF Data
  <2>3. b \in Seq(Plain)
    BY <2>1, <2>2, <1>5, AllPlain
  <2> QED BY <2>1, <2>2, <2>3 DEF Paired
<1>8. Paired(u) /\ Alone(u)
  BY <1>5, <1>6, <1>7, PairedCat, AloneCat DEF Core, code
<1>9. u \in Seq(T) /\ Len(u) = 3 /\ u[1] = First(code, "end") /\ u[2] = Second(code, "end") /\ u[3] = b[1]
  <2> DEFINE d == sd_cmd(code, "end")
  <2>1. u = d \o b
    BY DEF Core, code
  <2>2. d \in Seq(T) /\ b \in Seq(T) /\ Len(d) = 2 /\ Len(b) = 1
    BY <1>3, <1>4
  <2> HIDE DEF d, u, b
  <2>3. 1 \in 1 .. Len(d) /\ 2 \in 1 .. Len(d) /\ 1 \in 1 .. Len(b)
    BY <2>2, Indices
  <2>4. u \in Seq(T) /\ Len(u) = Len(d) + Len(b) /\ u[1] = d[1] /\ u[2] = d[2] /\ u[Len(d) + 1] = b[1]
    BY <2>1, <2>2, <2>3, Cat
  <2>5. Len(u) = 3 /\ u[3] = b[1]
    <3>1. Len(d) + Len(b) = 3 /\ Len(d) + 1 = 3
      BY <2>2
    <3> QED BY <2>4, <3>1
  <2>6. d[1] = First(code, "end") /\ d[2] = Second(code, "end")
    BY <1>3 DEF d
  <2> QED BY <2>4, <2>5, <2>6
<1> HIDE DEF u, b
<1>10. /\ u[1].k = "status" /\ u[1].code = code /\ u[1].mask = {"CMD"}
       /\ u[2].k = "int" /\ u[2].code = code /\ u[2].mask = {"CMD_DONE"}
       /\ u[3].k = "int" /\ u[3].code = "block" /\ u[3].mask = {Rdy(read)}
  <2>1. /\ First(code, "end").k = "status" /\ First(code, "end").code = code /\ First(code, "end").mask = {"CMD"}
        /\ Second(code, "end").k = "int" /\ Second(code, "end").code = code /\ Second(code, "end").mask = {"CMD_DONE"}
    <3>1. code \in Codes /\ "end" \in {"end", "skip", "app"}
      BY <1>1
    <3> QED BY <3>1, CmdWaits
  <2> QED BY <1>4, <1>9, <2>1
<1>11. 1 \in 1 .. Len(u) /\ 3 \in 1 .. Len(u) /\ \A i \in 1 .. Len(u) : i = 1 \/ i = 2 \/ i = 3
  BY <1>9, Indices
<1>12. HasBlock(u) /\ HasData(u)
  <2>1. HasBlock(u)
    <3>1. u \in Seq(T) /\ Len(u) = 3 /\ u[3].code = "block"
      BY <1>9, <1>10
    <3> QED BY <3>1, LastOf
  <2>2. Data(u[1])
    BY <1>1, <1>10 DEF Data
  <2> QED BY <1>11, <2>1, <2>2 DEF HasData
<1>13. ~Done(u[1]) /\ ~Done(u[2]) /\ ~Done(u[3])
  BY <1>10 DEF Done, Rdy
<1>14. Ordered(u)
  BY <1>1, <1>9, <1>10, <1>11, <1>12, <1>13 DEF Ordered
<1> QED BY <1>8, <1>9, <1>12, <1>14 DEF Keeps, T, u

\* A round of the loop: with its data command where the card is addressed by
\* bytes, else a wait for the block alone.
LEMMA RoundKeeps ==
  ASSUME ccs \in BOOLEAN, NEW read \in BOOLEAN, NEW num
  PROVE  /\ Keeps(Round(read), read, num) /\ HasBlock(Round(read))
         /\ ccs => Round(read) \in Seq(Plain)
         /\ ~ccs => Round(read) = Core(read, num)
<1> DEFINE b == Block(Rdy(read))
<1>1. Round(read) = Only(~ccs, Single(read)) \o b
  BY DEF Round, Rdy
<1>2. CASE ccs
  <2>1. /\ b \in Seq(TransferWaits(read, num, ccs)) /\ Len(b) = 1
        /\ b[1].k = "int" /\ b[1].code = "block" /\ b[1].mask = {Rdy(read)}
    BY BlockIs
  <2> HIDE DEF b
  <2>2. Round(read) = b
    BY <1>1, <1>2, <2>1, ConcatEmptySeq DEF Only
  <2>3. 1 \in 1 .. Len(b) /\ \A i \in 1 .. Len(b) : i = 1
    BY <2>1, Indices
  <2>4. ~Data(b[1]) /\ ~Done(b[1]) /\ b[1].k # "status"
    BY <2>1 DEF Data, Done, Rdy
  <2>5. b \in Seq(Waits)
    BY <2>1, TransferType
  <2>6. HasBlock(b)
    <3>1. b \in Seq(TransferWaits(read, num, ccs)) /\ Len(b) = 1 /\ b[1].code = "block"
      BY <2>1
    <3> QED BY <3>1, LastOf
  <2>8. b \in Seq(Plain)
    BY <2>3, <2>4, <2>5, AllPlain
  <2>7. Ordered(b) /\ Paired(b) /\ Alone(b)
    BY <2>1, <2>3, <2>4, <2>6 DEF Ordered, Paired, Alone
  <2> QED BY <1>2, <2>1, <2>2, <2>6, <2>7, <2>8 DEF Keeps
<1>3. CASE ~ccs
  <2>1. Round(read) = Core(read, num)
    BY <1>1, <1>3 DEF Only, Core, Single, DataCode
  <2> QED BY <1>3, <2>1, CoreKeeps
<1> QED BY <1>2, <1>3

\* A whole transfer.
LEMMA TransferKeeps ==
  ASSUME ccs \in BOOLEAN, blkcnt \in BOOLEAN, NEW read \in BOOLEAN, NEW num \in Nat \ {0},
         NEW mask \in SUBSET Status, "DAT" \in mask
  PROVE  /\ Keeps(sd_status(mask) \o Transfer(read, num), read, num)
         /\ HasBlock(sd_status(mask) \o Transfer(read, num)) /\ HasData(sd_status(mask) \o Transfer(read, num))
         /\ Asked(sd_status(mask) \o Transfer(read, num))
<1> DEFINE T == TransferWaits(read, num, ccs)
           core == Core(read, num)
           cmd == Only(ccs, IF num = 1 THEN Single(read) ELSE Multi(read))
           set == Only(ccs /\ num > 1 /\ blkcnt, sd_cmd("SET_BLOCKCNT", "end"))
           st == sd_status(mask)
<1>1. Transfer(read, num) = set \o (cmd \o Round(read))
  BY DEF Transfer
<1>2. Keeps(core, read, num) /\ HasBlock(core) /\ HasData(core)
  BY CoreKeeps
<1>3. cmd \o Round(read) = core
  <2>1. CASE ccs
    <3>1. cmd = sd_cmd(DataCode(read, num, ccs), "end")
      BY <2>1 DEF Only, Single, Multi, DataCode
    <3>2. Round(read) = Block(Rdy(read))
      <4>1. Block(Rdy(read)) \in Seq(T)
        BY BlockIs
      <4> QED BY <2>1, <4>1, ConcatEmptySeq DEF Round, Only, Rdy
    <3> QED BY <3>1, <3>2 DEF Core
  <2>2. CASE ~ccs
    <3>1. Round(read) = core
      BY <2>2, RoundKeeps
    <3>2. core \in Seq(T)
      BY <1>2 DEF Keeps
    <3> QED BY <2>2, <3>1, <3>2, ConcatEmptySeq DEF Only
  <2> QED BY <2>1, <2>2
<1> HIDE DEF core, cmd
<1>4. Keeps(set \o core, read, num) /\ HasBlock(set \o core) /\ HasData(set \o core)
  <2>1. CASE ccs /\ num > 1 /\ blkcnt
    <3>1. "SET_BLOCKCNT" \in Codes
      BY DEF Codes
    <3>2. First("SET_BLOCKCNT", "end") \in T /\ Second("SET_BLOCKCNT", "end") \in T
      BY CmdTransfer
    <3>3. set = sd_cmd("SET_BLOCKCNT", "end")
      BY <2>1 DEF Only
    <3>4. set \in Seq(T) /\ Len(set) = 2 /\ set[1] = First("SET_BLOCKCNT", "end") /\ set[2] = Second("SET_BLOCKCNT", "end")
      BY <3>2, <3>3, CmdIs
    <3>5. \A i \in 1 .. Len(set) : i = 1 \/ i = 2
      BY <3>4, Indices
    <3>6. /\ set[1].code = "SET_BLOCKCNT" /\ set[2].code = "SET_BLOCKCNT"
          /\ set[1].mask = {"CMD"} /\ set[2].mask = {"CMD_DONE"}
      BY <3>4, <3>1, CmdWaits
    <3>7. Paired(set)
      BY <3>1, <3>3, CmdForm
    <3>8. Before(set, read, num)
      BY <3>4, <3>5, <3>6, <3>7 DEF Before, Data, Done, DataCommands
    <3> QED BY <3>8, <1>2, BeforeCat
  <2>2. CASE ~(ccs /\ num > 1 /\ blkcnt)
    <3>1. core \in Seq(T)
      BY <1>2 DEF Keeps
    <3> QED BY <1>2, <2>2, <3>1, ConcatEmptySeq DEF Only
  <2> QED BY <2>1, <2>2
<1> DEFINE t == set \o core
<1>5. Keeps(t, read, num) /\ HasBlock(t) /\ HasData(t) /\ Transfer(read, num) = t
  BY <1>1, <1>3, <1>4
<1> HIDE DEF set, t
<1>6. /\ st \in Seq(T) /\ Len(st) = 1
      /\ st[1].k = "status" /\ st[1].mask = mask /\ st[1].code = "" /\ st[1].on = "end"
  <2> DEFINE w == [k |-> "status", mask |-> mask, code |-> "", on |-> "end"]
  <2>1. w \in T
    BY DEF TransferWaits, Waits, Kinds, Codes, Done
  <2>2. st = <<w>>
    BY DEF sd_status, Wait
  <2>3. w.k = "status" /\ w.mask = mask /\ w.code = "" /\ w.on = "end"
    OBVIOUS
  <2> HIDE DEF w, T, st
  <2>4. st \in Seq(T) /\ Len(st) = 1 /\ st[1] = w
    BY <2>1, <2>2
  <2> QED BY <2>3, <2>4
<1> HIDE DEF st
<1>7. 1 \in 1 .. Len(st) /\ \A i \in 1 .. Len(st) : i = 1
  BY <1>6, Indices
<1>8. Before(st, read, num)
  BY <1>6, <1>7 DEF Before, Paired, Data, Done, DataCommands
<1>9. Keeps(st \o t, read, num) /\ HasBlock(st \o t) /\ HasData(st \o t) /\ st \in Seq(Plain)
  BY <1>5, <1>8, BeforeCat
<1>10. Asked(st \o t)
  <2>1. st \in Seq(Waits) /\ t \in Seq(Waits)
    BY <1>5, <1>6, TransferType DEF Keeps
  <2>2. \E j \in 1 .. Len(st) : Asks(st[j])
    BY <1>6, <1>7 DEF Asks
  <2> QED BY <1>9, <2>1, <2>2, AskedCat
<1> QED BY <1>5, <1>9, <1>10 DEF st

\* The end of a transfer.
LEMMA ClosingKeeps ==
  ASSUME ccs \in BOOLEAN, blkcnt \in BOOLEAN, NEW read \in BOOLEAN, NEW num \in Nat \ {0}
  PROVE  /\ Keeps(Closing(read, num), read, num) /\ ~HasBlock(Closing(read, num))
         /\ Closing(read, num) \in Seq(Plain)
         /\ ~read => ~Past(Closing(read, num))
<1> DEFINE T == TransferWaits(read, num, ccs)
           d == Only(~read, sd_int("DATA_DONE"))
           e == Only(ccs /\ num > 1 /\ ~blkcnt, sd_cmd("STOP_TRANS", "skip"))
           u == d \o e
           w == [k |-> "int", mask |-> {"DATA_DONE"}, code |-> "", on |-> "end"]
<1>1. Closing(read, num) = u
  BY DEF Closing
<1>2. d \in Seq(T) /\ (read => Len(d) = 0) /\ (~read => Len(d) = 1 /\ d[1] = w)
  <2>1. CASE read
    <3>1. d = <<>>
      BY <2>1 DEF Only
    <3> HIDE DEF T, d
    <3>2. d \in Seq(T) /\ Len(d) = 0
      BY <3>1
    <3> QED BY <2>1, <3>2
  <2>2. CASE ~read
    <3>1. w \in T
      BY <2>2 DEF TransferWaits, Waits, Kinds, Codes, Done, Interrupts
    <3>2. d = <<w>>
      BY <2>2 DEF Only, sd_int, Wait
    <3> HIDE DEF w, T, d
    <3>3. d \in Seq(T) /\ Len(d) = 1 /\ d[1] = w
      BY <3>1, <3>2
    <3> QED BY <2>2, <3>3
  <2> HIDE DEF w, T, d
  <2> QED BY <2>1, <2>2
<1>3. /\ e \in Seq(T) /\ Paired(e) /\ Len(e) \in {0, 2}
      /\ \A i \in 1 .. Len(e) : e[i].code = "STOP_TRANS" /\ ~Done(e[i])
  <2>1. CASE ccs /\ num > 1 /\ ~blkcnt
    <3>1. "STOP_TRANS" \in Codes
      BY DEF Codes
    <3>2. First("STOP_TRANS", "skip") \in T /\ Second("STOP_TRANS", "skip") \in T
      BY CmdTransfer
    <3>3. e = sd_cmd("STOP_TRANS", "skip")
      BY <2>1 DEF Only
    <3>4. e \in Seq(T) /\ Len(e) = 2 /\ e[1] = First("STOP_TRANS", "skip") /\ e[2] = Second("STOP_TRANS", "skip")
      BY <3>2, <3>3, CmdIs
    <3>5. \A i \in 1 .. Len(e) : i = 1 \/ i = 2
      BY <3>4, Indices
    <3>6. /\ e[1].code = "STOP_TRANS" /\ e[2].code = "STOP_TRANS"
          /\ e[1].mask = {"CMD"} /\ e[2].mask = {"CMD_DONE"}
      BY <3>4, <3>1, CmdWaits
    <3>7. Paired(e)
      BY <3>1, <3>3, CmdForm
    <3> QED BY <3>4, <3>5, <3>6, <3>7 DEF Done
  <2>2. CASE ~(ccs /\ num > 1 /\ ~blkcnt)
    <3>1. e = <<>>
      BY <2>2 DEF Only
    <3> HIDE DEF e, T
    <3>2. e \in Seq(T) /\ Len(e) = 0
      BY <3>1
    <3>3. \A i \in 1 .. Len(e) : FALSE
      BY <3>2, Indices
    <3> QED BY <3>2, <3>3 DEF Paired
  <2> HIDE DEF e, T
  <2> QED BY <2>1, <2>2
<1>4. w.k = "int" /\ w.code = "" /\ w.mask = {"DATA_DONE"}
  OBVIOUS
<1> HIDE DEF T, d, e, w
<1>5. /\ u \in Seq(T) /\ Len(u) = Len(d) + Len(e) /\ Len(d) \in Nat /\ Len(e) \in Nat
      /\ \A i \in 1 .. Len(d) : u[i] = d[i]
      /\ \A i \in 1 .. Len(u) : i > Len(d) => i - Len(d) \in 1 .. Len(e) /\ u[i] = e[i - Len(d)]
  BY <1>2, <1>3, Cat
<1>6. d \in Seq(Waits) /\ e \in Seq(Waits) /\ u \in Seq(Waits)
  BY <1>2, <1>3, <1>5, TransferType DEF T
<1>7. Paired(u)
  <2>1. Paired(d)
    <3>1. \A i \in 1 .. Len(d) : i = 1 /\ d[i].k = "int"
      BY <1>2, <1>4, Indices
    <3> QED BY <3>1 DEF Paired
  <2> QED BY <1>3, <1>6, <2>1, PairedCat
<1> HIDE DEF u
<1>8. \A i \in 1 .. Len(u) : \/ i = 1 /\ ~read /\ u[i] = w
                             \/ u[i].code = "STOP_TRANS" /\ ~Done(u[i])
  <2>1. ASSUME NEW i \in 1 .. Len(u), i <= Len(d)
        PROVE  i = 1 /\ ~read /\ u[i] = w
    <3>1. i \in 1 .. Len(d) /\ u[i] = d[i]
      BY <2>1, <1>5
    <3> QED BY <3>1, <1>2, Indices
  <2>2. ASSUME NEW i \in 1 .. Len(u), i > Len(d)
        PROVE  u[i].code = "STOP_TRANS" /\ ~Done(u[i])
    <3>1. i - Len(d) \in 1 .. Len(e) /\ u[i] = e[i - Len(d)]
      BY <2>2, <1>5
    <3> QED BY <3>1, <1>3
  <2>3. \A i \in 1 .. Len(u) : i <= Len(d) \/ i > Len(d)
    BY <1>5
  <2> QED BY <2>1, <2>2, <2>3
<1>9. Done(w) /\ ~Data(w) /\ w.code \notin {"block", "STOP_TRANS"}
  BY <1>4 DEF Done, Data
<1>10. ~HasBlock(u)
  <2>1. u # <<>> => Len(u) \in 1 .. Len(u)
    BY <1>5
  <2> QED BY <1>8, <1>9, <2>1 DEF HasBlock
<1>11. \A i \in 1 .. Len(u) : ~Data(u[i]) /\ u[i].code # "block"
  BY <1>8, <1>9 DEF Data, DataCommands
<1>12. Ordered(u) /\ Alone(u) /\ u \in Seq(Plain)
  BY <1>6, <1>8, <1>10, <1>11 DEF Ordered, Alone, Plain
<1>13. ~read => ~Past(u)
  <2>1. SUFFICES ASSUME ~read PROVE 1 \in 1 .. Len(u) /\ u[1] = w
    BY <1>9 DEF Past
  <2>2. Len(d) = 1 /\ d[1] = w
    BY <1>2, <2>1
  <2>3. 1 \in 1 .. Len(d) /\ Len(u) = 1 + Len(e)
    BY <1>5, <2>2, Indices
  <2>4. 1 \in 1 .. Len(u)
    BY <1>5, <2>3
  <2> QED BY <1>5, <2>2, <2>3, <2>4
<1> QED BY <1>1, <1>5, <1>7, <1>10, <1>12, <1>13 DEF Keeps, T

-----------------------------------------------------------------------------
(* What a wait that ends leaves to be waited for. *)

\* Nothing left: nothing to be kept.
LEMMA Nothing ==
  /\ \A S : <<>> \in Seq(S)
  /\ Paired(<<>>) /\ Alone(<<>>) /\ Asked(<<>>) /\ Ordered(<<>>) /\ ~HasBlock(<<>>) /\ Past(<<>>)
<1>1. \A i \in 1 .. Len(<<>>) : FALSE
  OBVIOUS
<1>2. ~HasBlock(<<>>)
  BY DEF HasBlock
<1> QED BY <1>1, <1>2 DEF Paired, Alone, Asked, Ordered, Past

\* A sequence of plain waits has no data command.
LEMMA PlainHas ==
  ASSUME NEW s \in Seq(Waits)
  PROVE  s \in Seq(Plain) <=> ~HasData(s)
<1>1. s \in Seq(Plain) => \A i \in 1 .. Len(s) : ~Data(s[i])
  BY DEF Plain
<1>2. (\A i \in 1 .. Len(s) : ~Data(s[i])) => s \in Seq(Plain)
  BY AllPlain
<1> QED BY <1>1, <1>2 DEF HasData

\* A sequence of some length is not empty.
LEMMA NotEmpty ==
  ASSUME NEW S, NEW s \in Seq(S), Len(s) # 0
  PROVE  s # <<>>
OBVIOUS

\* t waits for the same parts of a transfer as s.
Same(s, t) ==
  /\ t \in Seq(Waits) /\ Paired(t) /\ Alone(t)
  /\ t \in Seq(Plain) <=> s \in Seq(Plain)
  /\ Ordered(s) => Ordered(t)
  /\ HasBlock(t) <=> HasBlock(s)
  /\ Past(t) <=> Past(s)

\* What every tail keeps.
LEMMA TailKeeps ==
  ASSUME NEW s \in Seq(Waits), s # <<>>, Paired(s), Alone(s)
  PROVE  /\ Tail(s) \in Seq(Waits) /\ Paired(Tail(s)) /\ Alone(Tail(s))
         /\ ~Asks(s[1]) /\ Asked(s) => Asked(Tail(s))
         /\ s[1].code # "block" => (HasBlock(Tail(s)) <=> HasBlock(s))
         /\ s[1].code # "block" /\ Ordered(s) => Ordered(Tail(s))
         /\ Data(s[1]) => Tail(s) \in Seq(Plain)
         /\ ~Data(s[1]) => (Tail(s) \in Seq(Plain) <=> s \in Seq(Plain))
         /\ s[1].code # "block" /\ ~Done(s[1]) => (Past(Tail(s)) <=> Past(s))
         /\ s[1].code # "block" /\ Done(s[1]) /\ Ordered(s) => Past(Tail(s))
<1> DEFINE t == Tail(s)
<1>1. /\ t \in Seq(Waits) /\ Len(t) = Len(s) - 1 /\ Len(s) \in Nat \ {0}
      /\ \A i \in 1 .. Len(t) : t[i] = s[i + 1]
  BY TailOf
<1> HIDE DEF t
<1>2. \A i \in 1 .. Len(t) : i + 1 \in 1 .. Len(s) /\ t[i] = s[i + 1]
  BY <1>1
<1>3. \A i \in 1 .. Len(s) : i = 1 \/ (i - 1 \in 1 .. Len(t) /\ t[i - 1] = s[i])
  BY <1>1
<1>4. Paired(t)
  <2>1. SUFFICES ASSUME NEW i \in 1 .. Len(t), t[i].k = "status", t[i].on # "end"
                 PROVE  i < Len(t) /\ ~Asks(t[i]) /\ ~Asks(t[i + 1])
    BY DEF Paired
  <2>2. i + 1 < Len(s) /\ ~Asks(s[i + 1]) /\ ~Asks(s[i + 1 + 1])
    BY <1>2, <2>1 DEF Paired
  <2>3. i + 1 \in 1 .. Len(t)
    BY <2>2, <1>1
  <2> QED BY <1>1, <1>2, <2>2, <2>3
<1>5. Alone(t)
  BY <1>2 DEF Alone
<1>6. ~Asks(s[1]) /\ Asked(s) => Asked(t)
  <2>1. SUFFICES ASSUME ~Asks(s[1]), Asked(s), NEW i \in 1 .. Len(t), Data(t[i])
                 PROVE  \E j \in 1 .. i - 1 : Asks(t[j])
    BY DEF Asked
  <2>2. PICK j \in 1 .. (i + 1) - 1 : Asks(s[j])
    BY <1>2, <2>1 DEF Asked
  <2>3. j # 1 /\ j \in 1 .. Len(s)
    BY <2>1, <2>2, <1>1
  <2>4. j - 1 \in 1 .. i - 1 /\ t[j - 1] = s[j]
    BY <1>3, <2>2, <2>3
  <2> QED BY <2>2, <2>4
<1>7. s[1].code # "block" => (HasBlock(t) <=> HasBlock(s))
  <2>1. CASE Len(s) = 1
    <3>1. t = <<>>
      BY <1>1, <2>1
    <3>2. HasBlock(s) => s[1].code = "block"
      BY <2>1 DEF HasBlock
    <3> QED BY <3>1, <3>2, Nothing
  <2>2. CASE Len(s) # 1
    <3>1. Len(t) \in 1 .. Len(t) /\ Len(t) + 1 = Len(s) /\ Len(t) # 0
      BY <1>1, <2>2
    <3>2. t[Len(t)] = s[Len(s)]
      BY <1>2, <3>1
    <3>3. t # <<>>
      BY <1>1, <3>1
    <3> QED BY <3>2, <3>3 DEF HasBlock
  <2> QED BY <2>1, <2>2
<1>8. s[1].code # "block" /\ Ordered(s) => Ordered(t)
  <2>1. SUFFICES ASSUME s[1].code # "block", Ordered(s), NEW i \in 1 .. Len(t)
                 PROVE  /\ t[i].code = "block" => i = Len(t)
                        /\ Data(t[i]) => HasBlock(t)
                        /\ t[i].code = "STOP_TRANS" => ~HasBlock(t)
                        /\ Done(t[i]) => i = 1 /\ ~HasBlock(t)
    BY DEF Ordered
  <2>2. i + 1 \in 1 .. Len(s) /\ t[i] = s[i + 1]
    BY <1>2
  <2>3. /\ s[i + 1].code = "block" => i + 1 = Len(s)
        /\ Data(s[i + 1]) => HasBlock(s)
        /\ s[i + 1].code = "STOP_TRANS" => ~HasBlock(s)
        /\ Done(s[i + 1]) => i + 1 = 1
    BY <2>1, <2>2 DEF Ordered
  <2>4. i + 1 # 1 /\ (i + 1 = Len(s) => i = Len(t))
    BY <1>1
  <2> QED BY <1>7, <2>1, <2>2, <2>3, <2>4
<1>9. Data(s[1]) => t \in Seq(Plain)
  <2>1. SUFFICES ASSUME Data(s[1]) PROVE \A i \in 1 .. Len(t) : ~Data(t[i])
    BY <1>1, AllPlain
  <2>2. 1 \in 1 .. Len(s)
    BY <1>1
  <2>3. \A i \in 1 .. Len(t) : i + 1 # 1
    BY <1>1
  <2> QED BY <1>2, <2>1, <2>2, <2>3 DEF Alone
<1>10. ~Data(s[1]) => (t \in Seq(Plain) <=> s \in Seq(Plain))
  <2>1. ~Data(s[1]) => (HasData(t) <=> HasData(s))
    BY <1>2, <1>3 DEF HasData
  <2> QED BY <2>1, <1>1, PlainHas
<1>11. s[1].code # "block" /\ ~Done(s[1]) => (Past(t) <=> Past(s))
  <2>1. ~Done(s[1]) => ((\A i \in 1 .. Len(t) : ~Done(t[i])) <=> (\A i \in 1 .. Len(s) : ~Done(s[i])))
    BY <1>2, <1>3
  <2> QED BY <2>1, <1>7 DEF Past
<1>12. s[1].code # "block" /\ Done(s[1]) /\ Ordered(s) => Past(t)
  <2>1. SUFFICES ASSUME s[1].code # "block", Done(s[1]), Ordered(s) PROVE Past(t)
    OBVIOUS
  <2>2. 1 \in 1 .. Len(s)
    BY <1>1
  <2>3. ~HasBlock(t)
    BY <1>7, <2>1, <2>2 DEF Ordered
  <2>4. \A i \in 1 .. Len(t) : i + 1 # 1
    BY <1>1
  <2>5. \A i \in 1 .. Len(t) : ~Done(t[i])
    BY <1>2, <2>1, <2>4 DEF Ordered
  <2> QED BY <2>3, <2>5 DEF Past
<1> QED BY <1>1, <1>4, <1>5, <1>6, <1>7, <1>8, <1>9, <1>10, <1>11, <1>12 DEF t

\* A wait that sends no data command and ends no transfer.
LEMMA TailSame ==
  ASSUME NEW s \in Seq(Waits), s # <<>>, Paired(s), Alone(s),
         ~Data(s[1]), s[1].code # "block", ~Done(s[1])
  PROVE  Same(s, Tail(s))
BY TailKeeps DEF Same

\* A command that is skipped.
LEMMA Skipped ==
  ASSUME NEW S, S \subseteq Waits, NEW s \in Seq(S), s # <<>>, Paired(s), Alone(s),
         s[1].k = "status", s[1].on # "end"
  PROVE  /\ SubSeq(s, 3, Len(s)) = Tail(Tail(s)) /\ Tail(s) # <<>>
         /\ Tail(s) \in Seq(S) /\ Tail(Tail(s)) \in Seq(S)
         /\ Tail(s)[1] = s[2] /\ s[2] \in S /\ s[1] \in S /\ ~Asks(s[1]) /\ ~Asks(s[2])
<1>1. 1 \in 1 .. Len(s) /\ Len(s) \in Nat
  OBVIOUS
<1>2. 1 < Len(s) /\ ~Asks(s[1]) /\ ~Asks(s[2])
  <2>1. 1 < Len(s) /\ ~Asks(s[1]) /\ ~Asks(s[1 + 1])
    BY <1>1 DEF Paired
  <2> QED BY <2>1
<1>3. /\ Tail(s) \in Seq(S) /\ Len(Tail(s)) = Len(s) - 1
      /\ \A i \in 1 .. Len(Tail(s)) : Tail(s)[i] = s[i + 1]
  BY TailOf
<1>4. Tail(s) # <<>> /\ 1 \in 1 .. Len(Tail(s)) /\ 2 \in 1 .. Len(s)
  <2>1. Len(s) \in Nat /\ Len(s) >= 2 /\ Len(Tail(s)) = Len(s) - 1
    BY <1>1, <1>2, <1>3
  <2>2. Len(Tail(s)) \in Nat /\ Len(Tail(s)) >= 1
    BY <2>1
  <2>3. Tail(s) # <<>>
    <3>1. Tail(s) \in Seq(S)
      BY <1>3
    <3>2. \A n \in Nat : n >= 1 => n # 0
      OBVIOUS
    <3>3. Len(Tail(s)) # 0
      BY <2>2, <3>2, Zenon
    <3> QED BY <3>1, <3>3, NotEmpty
  <2> QED BY <2>1, <2>2, <2>3
<1>5. /\ Tail(Tail(s)) \in Seq(S) /\ Len(Tail(Tail(s))) = Len(s) - 2
      /\ \A i \in 1 .. Len(Tail(Tail(s))) : Tail(Tail(s))[i] = s[i + 2]
  <2> DEFINE t == Tail(s)
  <2>1. t \in Seq(S) /\ t # <<>> /\ Len(t) = Len(s) - 1 /\ \A i \in 1 .. Len(t) : t[i] = s[i + 1]
    BY <1>3, <1>4
  <2> HIDE DEF t
  <2>2. /\ Tail(t) \in Seq(S) /\ Len(Tail(t)) = Len(t) - 1
        /\ \A i \in 1 .. Len(Tail(t)) : Tail(t)[i] = t[i + 1]
    BY <2>1, TailOf
  <2>3. ASSUME NEW i \in 1 .. Len(Tail(t)) PROVE Tail(t)[i] = s[i + 2]
    <3>1. i + 1 \in 1 .. Len(t) /\ i + 1 + 1 = i + 2
      BY <2>1, <2>2, <1>1
    <3>2. t[i + 1] = s[i + 1 + 1]
      BY <2>1, <3>1
    <3> QED BY <2>2, <3>1, <3>2
  <2>4. Len(Tail(t)) = Len(s) - 2
    BY <2>1, <2>2, <1>1
  <2> QED BY <2>2, <2>3, <2>4 DEF t
<1>6. SubSeq(s, 3, Len(s)) = Tail(Tail(s))
  <2> DEFINE u == SubSeq(s, 3, Len(s))
             v == Tail(Tail(s))
  <2>1. u \in Seq(S) /\ Len(u) = Len(s) - 2 /\ \A i \in 1 .. Len(u) : u[i] = s[i + 2]
    <3>1. 3 \in 1 .. Len(s) + 1 /\ Len(s) \in 0 .. Len(s)
      BY <1>1, <1>2
    <3>2. 3 \in Int /\ Len(s) \in Int /\ \A i \in 3 .. Len(s) : s[i] \in S
      BY <1>1
    <3>3. /\ u \in Seq(S) /\ Len(u) = IF 3 <= Len(s) THEN Len(s) - 3 + 1 ELSE 0
          /\ \A i \in 1 .. Len(s) - 3 + 1 : u[i] = s[3 + i - 1]
      BY <3>2, SubSeqProperties
    <3> HIDE DEF u
    <3>4. Len(u) = Len(s) - 2 /\ Len(s) - 3 + 1 = Len(s) - 2
      <4>1. Len(s) \in Nat /\ Len(s) >= 2
        BY <1>1, <1>2
      <4>2. Len(u) = IF 3 <= Len(s) THEN Len(s) - 3 + 1 ELSE 0
        BY <3>3
      <4>3. Len(s) - 3 + 1 = Len(s) - 2
        BY <4>1
      <4>4. CASE 3 <= Len(s)
        BY <4>2, <4>3, <4>4
      <4>5. CASE ~(3 <= Len(s))
        <5>1. \A n \in Nat : n >= 2 /\ ~(3 <= n) => n = 2
          OBVIOUS
        <5>2. Len(s) = 2
          BY <4>1, <4>5, <5>1, Zenon
        <5> QED BY <4>2, <4>3, <4>5, <5>2
      <4> QED BY <4>4, <4>5, <4>3
    <3>5. ASSUME NEW i \in 1 .. Len(u) PROVE u[i] = s[i + 2]
      <4>1. i \in 1 .. Len(s) - 3 + 1 /\ 3 + i - 1 = i + 2
        BY <3>4
      <4>2. u[i] = s[3 + i - 1]
        BY <3>3, <4>1
      <4> QED BY <4>1, <4>2
    <3> QED BY <3>3, <3>4, <3>5
  <2>2. v \in Seq(S) /\ Len(v) = Len(s) - 2 /\ \A i \in 1 .. Len(v) : v[i] = s[i + 2]
    BY <1>5
  <2> HIDE DEF u, v
  <2>3. u = v
    BY <2>1, <2>2, SeqEqual
  <2> QED BY <2>3 DEF u, v
<1>7. s[1] \in S /\ s[2] \in S
  BY <1>1, <1>4
<1>8. Tail(s)[1] = s[2]
  <2>1. 1 + 1 = 2
    OBVIOUS
  <2>2. Tail(s)[1] = s[1 + 1]
    BY <1>3, <1>4
  <2> QED BY <2>1, <2>2
<1> QED BY <1>2, <1>3, <1>4, <1>5, <1>6, <1>7, <1>8

-----------------------------------------------------------------------------
(* The invariant over steps of the same kind. *)

\* The wait at the head.
LEMMA HeadFacts ==
  ASSUME TypeOK, Form, todo # <<>>
  PROVE  /\ Running /\ todo \in Seq(Waits) /\ Head(todo) = todo[1] /\ todo[1] \in Waits
         /\ Paired(todo) /\ Alone(todo) /\ Tail(todo) \in Seq(Waits) /\ 1 \in 1 .. Len(todo)
         /\ call.op = "init" => todo[1] \in InitWaits /\ Tail(todo) \in Seq(InitWaits)
         /\ call.op # "init" => /\ todo[1] \in TransferWaits(call.op = "read", call.num, ccs)
                                /\ Tail(todo) \in Seq(TransferWaits(call.op = "read", call.num, ccs))
                                /\ call.op \in {"read", "write"} /\ call.num \in Nat \ {0} /\ Ordered(todo)
<1>1. Running /\ todo \in Seq(Waits) /\ Paired(todo) /\ Alone(todo)
  BY DEF TypeOK, Form
<1>2. \A S : todo \in Seq(S) => Tail(todo) \in Seq(S) /\ todo[1] \in S
  BY TailOf
<1>3. Head(todo) = todo[1] /\ 1 \in 1 .. Len(todo)
  BY <1>1
<1>4. call.op # "init" => call.op \in {"read", "write"} /\ call.num \in Nat \ {0}
  BY <1>1, SdAssumption DEF TypeOK, Calls, Running, NoCall
<1> QED BY <1>1, <1>2, <1>3, <1>4 DEF Form

\* A call that has failed keeps no promise.
LEMMA FailedKept ==
  ASSUME IInv, Running, UNCHANGED <<call, ccs, clash>>, TypeOK', todo' = <<>>, fail' # "SD_OK",
         "DAT" \notin busy' => phase'.left = 0
  PROVE  IInv'
<1>1. Form'
  BY Nothing DEF Form
<1>2. Lines'
  BY Nothing DEF IInv, Lines
<1>3. Moving'
  BY DEF Moving
<1> QED BY <1>1, <1>2, <1>3 DEF IInv

\* An initialisation goes on.
LEMMA InitKept ==
  ASSUME IInv, call.op = "init", UNCHANGED <<call, clash>>, TypeOK',
         todo' \in Seq(InitWaits), Paired(todo'), Alone(todo'),
         "DAT" \notin busy' \/ Asked(todo'),
         "DAT" \notin busy' => phase'.left = 0
  PROVE  IInv'
<1>1. Form'
  BY DEF Form
<1>2. Lines'
  BY DEF IInv, Lines
<1>3. Moving'
  BY DEF Moving
<1> QED BY <1>1, <1>2, <1>3 DEF IInv

\* A transfer goes on, and moves no block.
LEMMA TransferKept ==
  ASSUME IInv, Running, call.op # "init", UNCHANGED <<call, ccs, c, fail, clash, phase, moved>>, TypeOK',
         Same(todo, todo'), todo' \in Seq(TransferWaits(call.op = "read", call.num, ccs)),
         "DAT" \in busy' <=> "DAT" \in busy,
         "DAT" \notin busy \/ (Asked(todo) => Asked(todo')),
         int' \subseteq int, (Clean' => Clean) \/ (int' = {} /\ Past(todo))
  PROVE  IInv'
<1>1. Form'
  BY DEF IInv, Form, Same, Running
<1>2. Lines'
  BY DEF IInv, Lines, Running, Exempt
<1>3. Moving'
  <2>1. SUFFICES ASSUME fail' = "SD_OK", ~clash', Sent'
                 PROVE  /\ call.op = "read" => Reading'
                        /\ call.op = "write" => IF Past(todo') THEN Written' ELSE Clean' => Writing'
    BY DEF Moving
  <2>2. Moving /\ fail = "SD_OK" /\ ~clash /\ Sent
    BY <2>1 DEF IInv, Sent, Same
  <2>3. Told' = Told
    BY DEF Told, Same
  <2>4. Past(todo') <=> Past(todo)
    BY DEF Same
  <2>5. call.op = "read" => Reading'
    BY <2>2 DEF Moving, Reading
  <2>6. call.op = "write" /\ Past(todo') => Written'
    BY <2>2, <2>4 DEF Moving, Written
  <2>7. call.op = "write" /\ ~Past(todo') /\ Clean' => Writing'
    BY <2>2, <2>3, <2>4 DEF Moving, Writing
  <2> QED BY <2>5, <2>6, <2>7
<1> QED BY <1>1, <1>2, <1>3 DEF IInv

\* A wait that has failed ends the call, or its command is skipped.
LEMMA FailsEnds ==
  ASSUME TypeOK, Form, todo # <<>>, NEW r \in DOMAIN Value \ {"SD_OK"}, Fails(r)
  PROVE  /\ cnt' = Polls /\ fail' \in DOMAIN Value
         /\ \/ todo' = <<>> /\ fail' # "SD_OK"
            \/ /\ fail' = fail /\ Head(todo).on # "end"
               /\ IF Head(todo).k = "status" THEN todo' = Tail(Tail(todo)) ELSE todo' = Tail(todo)
<1> DEFINE w == Head(todo)
           ends == w.on = "end" \/ (w.on = "app" /\ sd_rca)
<1>1. todo \in Seq(Waits) /\ Paired(todo) /\ Alone(todo) /\ w = todo[1] /\ Waits \subseteq Waits
  BY HeadFacts
<1>2. cnt' = Polls
  BY DEF Fails
<1>3. CASE ends
  <2>1. todo' = <<>> /\ fail' = IF w.on = "app" THEN "SD_ERROR" ELSE r
    BY <1>3 DEF Fails
  <2> QED BY <1>2, <2>1 DEF Value
<1>4. CASE ~ends
  <2>1. fail' = fail /\ w.on # "end"
        /\ todo' = IF w.k = "status" THEN SubSeq(todo, 3, Len(todo)) ELSE Tail(todo)
    BY <1>4 DEF Fails
  <2>2. w.k = "status" => SubSeq(todo, 3, Len(todo)) = Tail(Tail(todo))
    BY <1>1, <2>1, Skipped
  <2> QED BY <1>2, <2>1, <2>2 DEF TypeOK
<1> QED BY <1>3, <1>4

\* The invariant when a wait has failed.
LEMMA FailsKept ==
  ASSUME IInv, todo # <<>>, NEW r \in DOMAIN Value \ {"SD_OK"}, Fails(r), TypeOK',
         Head(todo).k \in {"status", "int"} \/ Head(todo).on = "end",
         UNCHANGED <<call, ccs, c, clash, phase, moved>>, "DAT" \in busy' <=> "DAT" \in busy,
         int' = int \/ int' = {}
  PROVE  IInv'
<1> DEFINE w == Head(todo)
<1>1. TypeOK /\ Form /\ Lines
  BY DEF IInv
<1>2. /\ Running /\ todo \in Seq(Waits) /\ w = todo[1] /\ w \in Waits
      /\ Paired(todo) /\ Alone(todo) /\ Tail(todo) \in Seq(Waits) /\ 1 \in 1 .. Len(todo)
  BY <1>1, HeadFacts
<1>3. "DAT" \notin busy' => phase'.left = 0
  BY <1>1 DEF Lines
<1>4. CASE todo' = <<>> /\ fail' # "SD_OK"
  BY <1>2, <1>3, <1>4, FailedKept
<1>5. CASE fail' = fail /\ w.on # "end" /\ w.k = "status" /\ todo' = Tail(Tail(todo))
  <2> DEFINE t == Tail(todo)
  <2>1. /\ t # <<>> /\ t \in Seq(Waits) /\ t[1] = todo[2] /\ todo[2] \in Waits
        /\ ~Asks(todo[1]) /\ ~Asks(todo[2])
    <3>1. Waits \subseteq Waits
      OBVIOUS
    <3> QED BY <1>2, <1>5, <3>1, Skipped
  <2>2. Paired(t) /\ Alone(t) /\ (Asked(todo) => Asked(t))
    BY <1>2, <2>1, TailKeeps
  <2>3. /\ Tail(t) \in Seq(Waits) /\ Paired(Tail(t)) /\ Alone(Tail(t)) /\ (Asked(t) => Asked(Tail(t)))
    <3> HIDE DEF t
    <3> QED BY <2>1, <2>2, TailKeeps
  <2>4. CASE call.op = "init"
    <3>1. Tail(t) \in Seq(InitWaits)
      <4>1. todo \in Seq(InitWaits) /\ InitWaits \subseteq Waits
        BY <1>1, <2>4 DEF Form, InitWaits
      <4> QED BY <4>1, <1>2, <1>5, Skipped
    <3>2. "DAT" \notin busy' \/ Asked(todo')
      BY <1>1, <1>2, <1>5, <2>2, <2>3, <2>4 DEF Lines, Exempt
    <3> QED BY <1>3, <1>5, <2>3, <2>4, <3>1, <3>2, InitKept
  <2>5. CASE call.op # "init"
    <3> DEFINE T == TransferWaits(call.op = "read", call.num, ccs)
    <3>1. /\ todo \in Seq(T) /\ Ordered(todo) /\ todo[1] \in T /\ T \subseteq Waits
      BY <1>1, <1>2, <2>5, HeadFacts DEF Form, TransferWaits
    <3>2. todo[1].code = "STOP_TRANS" /\ ~Done(todo[1]) /\ ~HasBlock(todo)
      <4>1. todo[1].code = "STOP_TRANS"
        BY <1>2, <1>5, <3>1 DEF TransferWaits
      <4>2. ~Done(todo[1])
        BY <1>2, <1>5 DEF Done
      <4> QED BY <4>1, <4>2, <3>1, <1>2 DEF Ordered
    <3>3. \A i \in 1 .. Len(todo) : ~Done(todo[i]) /\ ~Data(todo[i])
      BY <3>1, <3>2 DEF Ordered
    <3>4. Past(todo)
      BY <3>2, <3>3 DEF Past
    <3>5. Tail(t) \in Seq(T) /\ todo[2] \in T
      <4> HIDE DEF T
      <4> QED BY <3>1, <1>2, <1>5, Skipped
    <3>6. ~Data(todo[1]) /\ todo[1].code # "block"
      BY <3>2 DEF Data, DataCommands
    <3>7. ~Data(todo[2]) /\ ~Done(todo[2]) /\ todo[2].code # "block"
      <4>1. 2 \in 1 .. Len(todo)
        <5>1. Len(t) = Len(todo) - 1 /\ Len(t) \in Nat \ {0} /\ Len(todo) \in Nat
          BY <1>2, <2>1, TailOf
        <5> QED BY <5>1
      <4>2. todo[2].code # "block"
        <5>1. todo[2].code = "block" => 2 = Len(todo)
          BY <3>1, <4>1 DEF Ordered
        <5>2. todo # <<>>
          OBVIOUS
        <5> QED BY <5>1, <5>2, <3>2 DEF HasBlock
      <4> QED BY <3>3, <4>1, <4>2
    <3>8. Same(todo, t)
      BY <1>2, <3>2, <3>6, TailSame
    <3>9. Same(t, Tail(t))
      <4> HIDE DEF t
      <4> QED BY <2>1, <2>2, <3>7, TailSame
    <3>10. Same(todo, todo')
      BY <1>5, <3>8, <3>9 DEF Same
    <3>11. int' \subseteq int /\ ((Clean' => Clean) \/ (int' = {} /\ Past(todo)))
      BY <3>4 DEF Clean
    <3>12. "DAT" \notin busy \/ (Asked(todo) => Asked(todo'))
      BY <1>5, <2>2, <2>3
    <3> QED BY <1>2, <1>5, <2>5, <3>5, <3>10, <3>11, <3>12, TransferKept
  <2> QED BY <2>4, <2>5
<1>6. CASE fail' = fail /\ w.on # "end" /\ w.k = "int" /\ todo' = Tail(todo)
  <2>1. ~Asks(todo[1]) /\ ~Data(todo[1])
    BY <1>2, <1>6 DEF Asks, Data
  <2>2. Paired(todo') /\ Alone(todo') /\ (Asked(todo) => Asked(todo'))
    BY <1>2, <1>6, <2>1, TailKeeps
  <2>3. CASE call.op = "init"
    <3>1. todo' \in Seq(InitWaits)
      BY <1>1, <1>6, <2>3, HeadFacts
    <3>2. "DAT" \notin busy' \/ Asked(todo')
      BY <1>1, <1>2, <2>2, <2>3 DEF Lines, Exempt
    <3> QED BY <1>3, <2>2, <2>3, <3>1, <3>2, InitKept
  <2>4. CASE call.op # "init"
    <3> DEFINE T == TransferWaits(call.op = "read", call.num, ccs)
    <3>1. Ordered(todo) /\ todo[1] \in T /\ todo' \in Seq(T)
      BY <1>1, <1>6, <2>4, HeadFacts
    <3>2. todo[1].code = "STOP_TRANS" /\ ~Done(todo[1]) /\ ~HasBlock(todo)
      <4>1. todo[1].code = "STOP_TRANS"
        BY <1>2, <1>6, <3>1 DEF TransferWaits
      <4>2. ~Done(todo[1])
        BY <3>1, <4>1 DEF TransferWaits
      <4> QED BY <4>1, <4>2, <3>1, <1>2 DEF Ordered
    <3>3. \A i \in 1 .. Len(todo) : ~Done(todo[i])
      BY <3>1, <3>2 DEF Ordered
    <3>4. Past(todo)
      BY <3>2, <3>3 DEF Past
    <3>5. Same(todo, todo')
      BY <1>2, <1>6, <2>1, <3>2, TailSame
    <3>6. int' \subseteq int /\ ((Clean' => Clean) \/ (int' = {} /\ Past(todo)))
      BY <3>4 DEF Clean
    <3> QED BY <1>2, <1>6, <2>2, <2>4, <3>1, <3>5, <3>6, TransferKept
  <2> QED BY <2>3, <2>4
<1> QED
  <2>1. \/ todo' = <<>> /\ fail' # "SD_OK"
        \/ /\ fail' = fail /\ w.on # "end"
           /\ IF w.k = "status" THEN todo' = Tail(Tail(todo)) ELSE todo' = Tail(todo)
    BY <1>1, <1>2, FailsEnds
  <2> QED BY <2>1, <1>4, <1>5, <1>6

-----------------------------------------------------------------------------
(* The steps. *)

\* Nothing has been asked of the driver yet.
LEMMA InitIInv == ASSUME Init PROVE IInv
<1>1. TypeOK
  BY Nothing DEF Init, TypeOK, Calls, NoCall, NoPhase, Phases, Value, Running
<1>2. Form
  BY Nothing DEF Init, Form, Running, NoCall
<1>3. Lines
  BY DEF Init, Lines, Running, NoPhase
<1>4. Moving
  BY DEF Init, Moving, NoCall
<1> QED BY <1>1, <1>2, <1>3, <1>4 DEF IInv

\* The number of blocks of a call.
LEMMA NumType == ASSUME TypeOK PROVE call.num \in Nat
<1>1. CASE call = NoCall
  BY <1>1 DEF NoCall
<1>2. CASE call \in [op : {"init"}, num : {0}]
  BY <1>2
<1>3. CASE call \in [op : {"read", "write"}, num : Nums]
  BY <1>3, SdAssumption
<1> QED BY <1>1, <1>2, <1>3 DEF TypeOK, Calls

\* A round of a loop changes the count of its rounds alone.
LEMMA PollKeeps == ASSUME IInv, Poll PROVE IInv'
<1>1. cnt' = cnt - 1 /\ cnt > 0 /\ UNCHANGED <<call, todo, fail, sd_err, sd_rca, ccs, blkcnt, tries, resp, c, stat, ready, busy, int, phase, moved, clash>>
  BY DEF Poll, emmc
<1>2. TypeOK'
  <2>1. TypeOK /\ cnt' \in Nat
    <3>1. TypeOK /\ cnt \in Nat /\ cnt > 0 /\ cnt' = cnt - 1
      BY <1>1 DEF IInv, TypeOK
    <3> QED BY <3>1
  <2> QED BY <1>1, <2>1 DEF TypeOK, Running
<1>3. Form'
  BY <1>1 DEF IInv, Form, Running
<1>4. Lines'
  BY <1>1 DEF IInv, Lines, Running, Exempt
<1>5. Moving'
  BY <1>1 DEF IInv, Moving, Sent, Reading, Writing, Written, Clean, Told
<1> QED BY <1>2, <1>3, <1>4, <1>5 DEF IInv

\* A transfer sends its data command.
LEMMA SendMoves ==
  ASSUME IInv, todo # <<>>, call.op # "init", UNCHANGED <<call, ccs, c, fail>>, TypeOK',
         Data(Head(todo)), Send(Head(todo).code), Clean, todo' = Tail(todo)
  PROVE  IInv'
<1> DEFINE w == Head(todo)
           read == call.op = "read"
           T == TransferWaits(read, call.num, ccs)
<1>1. TypeOK /\ Form /\ Lines /\ Moving
  BY DEF IInv
<1>2. /\ Running /\ todo \in Seq(Waits) /\ w = todo[1] /\ w \in Waits /\ 1 \in 1 .. Len(todo)
      /\ Paired(todo) /\ Alone(todo) /\ w \in T /\ Tail(todo) \in Seq(T) /\ Ordered(todo)
      /\ call.op \in {"read", "write"} /\ call.num \in Nat \ {0}
  BY <1>1, HeadFacts
<1>3. w.code = DataCode(read, call.num, ccs) /\ w.code \in DataCommands
  BY <1>2 DEF Data, DataCommands, TransferWaits
<1>4. HasBlock(todo) /\ w.code # "block" /\ ~(todo \in Seq(Plain))
  <2>1. HasBlock(todo)
    BY <1>2 DEF Ordered
  <2>2. HasData(todo)
    BY <1>2 DEF HasData
  <2> QED BY <1>2, <1>3, <2>1, <2>2, PlainHas DEF DataCommands
<1>5. /\ Paired(todo') /\ Alone(todo') /\ Ordered(todo') /\ HasBlock(todo') /\ todo' \in Seq(Plain)
      /\ todo' \in Seq(Waits) /\ todo' \in Seq(T)
  BY <1>2, <1>4, TailKeeps
<1>6. ~Past(todo') /\ ~Past(todo)
  BY <1>4, <1>5 DEF Past
<1>7. Asked(todo')
  <2>1. ~HasData(todo')
    BY <1>5, PlainHas
  <2> QED BY <2>1 DEF HasData, Asked
<1>8. Form'
  BY <1>1, <1>2, <1>4, <1>5 DEF Form
<1>9. int' = {} /\ "DAT" \in busy' /\ clash' = (clash \/ "DAT" \in busy)
  BY <1>3 DEF Send
<1>10. "DAT" \in busy => call.num > 1 /\ ~ccs
  <2>1. SUFFICES ASSUME "DAT" \in busy PROVE Exempt
    BY DEF Exempt
  <2>2. ~Asked(todo)
    BY <1>2 DEF Asked
  <2> QED BY <1>1, <1>2, <2>1, <2>2 DEF Lines
<1>11. Lines'
  BY <1>1, <1>7, <1>9, <1>10 DEF Lines
<1>12. Moving'
  <2>1. SUFFICES ASSUME fail = "SD_OK", ~clash'
                 PROVE  /\ read => Reading'
                        /\ ~read => Writing'
    BY <1>2, <1>6 DEF Moving
  <2>2. ~clash /\ "DAT" \notin busy /\ phase.left = 0
    BY <1>1, <1>9, <2>1 DEF Lines
  <2>3. phase \in Phases /\ c \in Nat /\ moved \in Nat /\ ccs \in BOOLEAN
    BY <1>1 DEF TypeOK
  <2>4. c > 0 => Sent /\ ~ccs
    BY <1>1, <1>2, <1>4 DEF Sent, Form
  <2>5. moved' = c
    <3>1. c = 0 => moved' = 0
      BY <1>3 DEF Send
    <3>2. c > 0 => moved' = moved
      BY <1>3, <2>3 DEF Send
    <3>3. c > 0 /\ read => moved = c
      BY <1>1, <2>1, <2>2, <2>4 DEF Moving, Reading
    <3>4. c > 0 /\ ~read => moved = c
      <4>1. SUFFICES ASSUME c > 0, ~read PROVE moved = c
        OBVIOUS
      <4>2. Writing
        BY <1>1, <1>2, <1>6, <2>1, <2>2, <2>4, <4>1 DEF Moving
      <4>3. Told = c
        BY <1>4, <2>4, <4>1 DEF Told
      <4> QED BY <2>2, <2>3, <4>2, <4>3 DEF Writing
    <3> QED BY <2>3, <3>1, <3>2, <3>3, <3>4
  <2>6. phase'.dir = (IF read THEN "read" ELSE "write") /\ phase'.buf = phase.buf
        /\ phase'.left = IF ccs /\ call.num > 1 THEN call.num ELSE 1
    <3>1. phase' = [dir |-> IF w.code \in {"WRITE_SINGLE", "WRITE_MULTI"} THEN "write" ELSE "read",
                    left |-> phase.left + IF w.code \in {"READ_MULTI", "WRITE_MULTI"} THEN call.num ELSE 1,
                    buf |-> phase.buf]
      BY <1>3 DEF Send
    <3>2. /\ w.code \in {"WRITE_SINGLE", "WRITE_MULTI"} <=> ~read
          /\ w.code \in {"READ_MULTI", "WRITE_MULTI"} <=> ccs /\ call.num > 1
      BY <1>3 DEF DataCode
    <3>3. /\ phase'.dir = IF w.code \in {"WRITE_SINGLE", "WRITE_MULTI"} THEN "write" ELSE "read"
          /\ phase'.left = phase.left + IF w.code \in {"READ_MULTI", "WRITE_MULTI"} THEN call.num ELSE 1
          /\ phase'.buf = phase.buf
      BY <3>1
    <3>4. phase'.left = IF ccs /\ call.num > 1 THEN call.num ELSE 1
      BY <3>2, <3>3, <2>2, <1>2
    <3> QED BY <3>2, <3>3, <3>4
  <2>7. read => Reading'
    BY <1>9, <2>5, <2>6 DEF Reading
  <2>8. ~read => Writing'
    <3>1. Told' = IF ccs THEN call.num ELSE c + 1
      BY <1>5 DEF Told
    <3>2. moved' + phase'.left = Told'
      <4>1. CASE ccs
        <5>1. c = 0
          BY <2>3, <2>4, <4>1
        <5>2. phase'.left = call.num
          BY <1>2, <2>6, <4>1
        <5> QED BY <1>2, <2>5, <3>1, <4>1, <5>1, <5>2
      <4>2. CASE ~ccs
        BY <2>3, <2>5, <2>6, <3>1, <4>2
      <4> QED BY <4>1, <4>2
    <3>3. phase'.left > 0
      BY <1>2, <2>6
    <3> QED BY <1>9, <2>6, <3>2, <3>3 DEF Writing
  <2> QED BY <2>7, <2>8
<1> QED BY <1>8, <1>11, <1>12 DEF IInv

\* The types after the end of a wait of sd_status() or sd_cmd().
LEMMA StatusType == ASSUME IInv, StatusEnds PROVE TypeOK'
<1> DEFINE w == Head(todo)
           ok == cnt > 0 /\ int \cap Errors = {}
<1>1. TypeOK /\ Form /\ todo # <<>>
  BY DEF IInv, StatusEnds, At
<1>2. /\ Running /\ todo \in Seq(Waits) /\ w \in Waits /\ Tail(todo) \in Seq(Waits)
  BY <1>1, HeadFacts
<1>3. todo' \in Seq(Waits) /\ cnt' \in Nat /\ fail' \in DOMAIN Value
  <2>1. CASE ok
    BY <1>1, <1>2, <2>1, SdAssumption DEF StatusEnds, Proceed, TypeOK
  <2>2. CASE ~ok
    <3>1. Fails("SD_TIMEOUT") /\ "SD_TIMEOUT" \in DOMAIN Value \ {"SD_OK"}
      BY <2>2 DEF StatusEnds, Value
    <3>2. todo' = <<>> \/ todo' = Tail(todo) \/ (w.k = "status" /\ w.on # "end" /\ todo' = Tail(Tail(todo)))
      BY <1>1, <3>1, FailsEnds
    <3>3. Waits \subseteq Waits /\ w = todo[1] /\ Paired(todo) /\ Alone(todo)
      BY <1>1, HeadFacts
    <3>4. w.k = "status" /\ w.on # "end" => Tail(Tail(todo)) \in Seq(Waits)
      BY <1>1, <1>2, <3>3, Skipped
    <3>5. cnt' = Polls /\ fail' \in DOMAIN Value
      BY <1>1, <3>1, FailsEnds
    <3> QED BY <1>2, <3>2, <3>4, <3>5, Nothing, SdAssumption
  <2> QED BY <2>1, <2>2
<1>4. /\ int' \in SUBSET Interrupts /\ busy' \in SUBSET Status /\ clash' \in BOOLEAN
      /\ phase' \in Phases /\ moved' \in Nat
  <2>1. CASE ok /\ w.code # ""
    <3>1. Send(w.code)
      BY <2>1 DEF StatusEnds
    <3>2. call.num \in Nat
      BY <1>1, NumType
    <3>3. int' \in SUBSET Interrupts /\ busy' \in SUBSET Status /\ clash' \in BOOLEAN /\ moved' \in Nat
      BY <1>1, <3>1 DEF Send, TypeOK, Status
    <3>4. phase' \in Phases
      <4> DEFINE dir == IF w.code \in {"WRITE_SINGLE", "WRITE_MULTI"} THEN "write" ELSE "read"
                 left == phase.left + IF w.code \in {"READ_MULTI", "WRITE_MULTI"} THEN call.num ELSE 1
      <4>1. phase' = phase \/ phase' = [dir |-> dir, left |-> left, buf |-> phase.buf]
        BY <3>1 DEF Send
      <4>2. phase \in Phases /\ phase.left \in Nat /\ phase.buf \in {"empty", "full", "open"}
        BY <1>1 DEF TypeOK, Phases
      <4>3. dir \in {"none", "read", "write"} /\ left \in Nat
        BY <3>2, <4>2
      <4> HIDE DEF dir, left
      <4> QED BY <4>1, <4>2, <4>3 DEF Phases
    <3> QED BY <3>3, <3>4
  <2>2. CASE ~(ok /\ w.code # "")
    BY <1>1, <2>2 DEF StatusEnds, TypeOK, emmc
  <2> QED BY <2>1, <2>2
<1>5. sd_err' \in {"SD_OK", "SD_TIMEOUT", "SD_ERROR"}
  <2>1. sd_err' = "SD_TIMEOUT" \/ sd_err' = sd_err \/ sd_err' = "SD_OK"
    BY DEF StatusEnds
  <2> QED BY <1>1, <2>1 DEF TypeOK
<1>6. UNCHANGED <<call, sd_rca, ccs, blkcnt, tries, resp, c, stat, ready>>
  BY DEF StatusEnds
<1> QED BY <1>1, <1>2, <1>3, <1>4, <1>5, <1>6 DEF TypeOK, Running

\* The end of sd_status(), or a command sent.
LEMMA StatusKeeps == ASSUME IInv, StatusEnds PROVE IInv'
<1> DEFINE w == Head(todo)
           ok == cnt > 0 /\ int \cap Errors = {}
           T == TransferWaits(call.op = "read", call.num, ccs)
<1>1. TypeOK /\ Form /\ Lines /\ Moving /\ todo # <<>> /\ w.k = "status"
  BY DEF IInv, StatusEnds, At
<1>2. TypeOK'
  BY StatusType
<1>3. /\ Running /\ todo \in Seq(Waits) /\ w = todo[1] /\ w \in Waits
      /\ Paired(todo) /\ Alone(todo) /\ Tail(todo) \in Seq(Waits) /\ 1 \in 1 .. Len(todo)
      /\ call.op = "init" => w \in InitWaits /\ Tail(todo) \in Seq(InitWaits)
      /\ call.op # "init" => w \in T /\ Tail(todo) \in Seq(T) /\ Ordered(todo)
  BY <1>1, HeadFacts
<1>4. UNCHANGED <<call, ccs, c>>
  BY DEF StatusEnds
<1>5. CASE ~ok
  <2>1. Fails("SD_TIMEOUT") /\ "SD_TIMEOUT" \in DOMAIN Value \ {"SD_OK"}
    BY <1>5 DEF StatusEnds, Value
  <2>2. UNCHANGED <<busy, int, phase, moved, clash>>
    BY <1>5 DEF StatusEnds, emmc
  <2> QED BY <1>1, <1>2, <1>4, <2>1, <2>2, FailsKept
<1>6. CASE ok
  <2>1. todo' = Tail(todo) /\ fail' = fail /\ Clean
    BY <1>6 DEF StatusEnds, Proceed, Clean
  <2>2. /\ Paired(todo') /\ Alone(todo') /\ (~Asks(w) /\ Asked(todo) => Asked(todo'))
        /\ Data(w) => todo' \in Seq(Plain)
    BY <1>1, <1>3, <2>1, TailKeeps
  <2>3. Asks(w) => "DAT" \notin busy
    <3>1. cnt # 0 /\ int \cap Errors = {}
      BY <1>6
    <3>2. busy \cap w.mask = {} \/ int \cap Errors # {} \/ cnt = 0
      BY DEF StatusEnds
    <3> QED BY <3>1, <3>2 DEF Asks
  <2>4. Data(w) => Send(w.code) /\ "DAT" \in busy' /\ clash' = (clash \/ "DAT" \in busy)
    BY <1>6 DEF StatusEnds, Data, DataCommands, Send
  <2>5. ~Data(w) => /\ "DAT" \in busy' <=> "DAT" \in busy
                    /\ UNCHANGED <<phase, moved, clash>>
                    /\ int' \subseteq int
    <3>1. CASE w.code = ""
      BY <1>6, <3>1 DEF StatusEnds, emmc
    <3>2. CASE w.code # ""
      <4>1. Send(w.code)
        BY <1>6, <3>2 DEF StatusEnds
      <4>2. ~Data(w) => w.code \notin DataCommands
        BY <1>1 DEF Data
      <4> QED BY <4>1, <4>2, <1>1 DEF Send, TypeOK
    <3> QED BY <3>1, <3>2
  <2>6. CASE call.op = "init"
    <3>1. CASE Data(w)
      <4>1. "DAT" \notin busy
        <5>1. ~Asked(todo)
          BY <1>3, <3>1 DEF Asked
        <5> QED BY <1>1, <1>3, <2>6, <5>1 DEF Lines, Exempt
      <4>2. UNCHANGED clash
        BY <1>1, <2>4, <3>1, <4>1 DEF TypeOK
      <4>3. Asked(todo')
        <5>1. ~HasData(todo')
          BY <1>3, <2>1, <2>2, <3>1, PlainHas
        <5> QED BY <5>1 DEF HasData, Asked
      <4> QED BY <1>2, <1>3, <1>4, <2>1, <2>2, <2>4, <2>6, <3>1, <4>2, <4>3, InitKept
    <3>2. CASE ~Data(w)
      <4>1. "DAT" \notin busy' \/ Asked(todo')
        BY <1>1, <1>3, <2>2, <2>3, <2>5, <2>6, <3>2 DEF Lines, Exempt
      <4>2. "DAT" \notin busy' => phase'.left = 0
        BY <1>1, <2>5, <3>2 DEF Lines
      <4> QED BY <1>2, <1>3, <1>4, <2>1, <2>2, <2>5, <2>6, <3>2, <4>1, <4>2, InitKept
    <3> QED BY <3>1, <3>2
  <2>7. CASE call.op # "init"
    <3>1. CASE Data(w)
      BY <1>1, <1>2, <1>4, <2>1, <2>4, <2>7, <3>1, SendMoves
    <3>2. CASE ~Data(w)
      <4>1. w.code # "block" /\ ~Done(w)
        BY <1>1, <1>3, <2>7 DEF TransferWaits, Done
      <4>2. Same(todo, todo')
        BY <1>1, <1>3, <2>1, <3>2, <4>1, TailSame
      <4>3. "DAT" \notin busy \/ (Asked(todo) => Asked(todo'))
        BY <2>2, <2>3
      <4> QED BY <1>2, <1>3, <1>4, <2>1, <2>5, <2>7, <3>2, <4>2, <4>3, TransferKept
    <3> QED BY <3>1, <3>2
  <2> QED BY <2>6, <2>7
<1> QED BY <1>5, <1>6

\* The sequence of a round, or of the end of a transfer.
LEMMA NextRoundKeeps ==
  ASSUME TypeOK, Running, call.op # "init"
  PROVE  LET read == call.op = "read"
         IN  /\ Keeps(NextRound, read, call.num) /\ NextRound \in Seq(Waits)
             /\ HasBlock(NextRound) <=> c + 1 < call.num
             /\ (ccs \/ ~(c + 1 < call.num)) => NextRound \in Seq(Plain)
             /\ ~ccs /\ c + 1 < call.num => HasData(NextRound)
             /\ ~read => ~Past(NextRound)
<1> DEFINE read == call.op = "read"
<1>1. call.num \in Nat \ {0} /\ read \in BOOLEAN /\ ccs \in BOOLEAN /\ blkcnt \in BOOLEAN
  BY SdAssumption DEF TypeOK, Calls, Running, NoCall
<1>2. CASE c + 1 < call.num
  <2>1. NextRound = Round(read)
    BY <1>2 DEF NextRound
  <2>2. /\ Keeps(Round(read), read, call.num) /\ HasBlock(Round(read))
        /\ ccs => Round(read) \in Seq(Plain)
        /\ ~ccs => Round(read) = Core(read, call.num)
    BY <1>1, RoundKeeps
  <2>3. ~ccs => HasData(Round(read))
    BY <1>1, <2>2, CoreKeeps
  <2>4. ~Past(Round(read))
    BY <2>2 DEF Past
  <2>5. Round(read) \in Seq(Waits)
    BY <1>1, <2>2, TransferType DEF Keeps
  <2> QED BY <1>2, <2>1, <2>2, <2>3, <2>4, <2>5
<1>3. CASE ~(c + 1 < call.num)
  <2>1. NextRound = Closing(read, call.num)
    BY <1>3 DEF NextRound
  <2>2. /\ Keeps(Closing(read, call.num), read, call.num) /\ ~HasBlock(Closing(read, call.num))
        /\ Closing(read, call.num) \in Seq(Plain)
        /\ ~read => ~Past(Closing(read, call.num))
    BY <1>1, ClosingKeeps
  <2>3. Closing(read, call.num) \in Seq(Waits)
    BY <1>1, <2>2, TransferType DEF Keeps
  <2> QED BY <1>3, <2>1, <2>2, <2>3
<1> QED BY <1>2, <1>3

\* A block has been announced and is moved.
LEMMA BlockMoves ==
  ASSUME IInv, todo # <<>>, TypeOK', UNCHANGED <<call, ccs, fail, clash>>,
         Head(todo).k = "int", Head(todo).code = "block", todo' = NextRound, MoveBlock,
         int \cap Head(todo).mask # {}, Clean, int' = int \ Head(todo).mask
  PROVE  IInv'
<1> DEFINE w == Head(todo)
           read == call.op = "read"
           T == TransferWaits(read, call.num, ccs)
<1>1. TypeOK /\ Form /\ Lines /\ Moving
  BY DEF IInv
<1>2. Running /\ todo \in Seq(Waits) /\ w = todo[1] /\ w \in Waits /\ 1 \in 1 .. Len(todo)
  BY <1>1, HeadFacts
<1>3. call.op # "init"
  BY <1>1, <1>2, HeadFacts DEF InitWaits
<1>4. w \in T /\ Ordered(todo) /\ call.op \in {"read", "write"} /\ call.num \in Nat \ {0}
  BY <1>1, <1>3, HeadFacts
<1>5. w.mask = {Rdy(read)} /\ Rdy(read) \in int
  BY <1>4 DEF TransferWaits
<1>6. Len(todo) = 1 /\ HasBlock(todo) /\ todo \in Seq(Plain)
  <2>1. Len(todo) = 1
    BY <1>2, <1>4 DEF Ordered
  <2>2. HasBlock(todo)
    BY <1>2, <2>1, LastOf
  <2>3. \A i \in 1 .. Len(todo) : i = 1
    BY <2>1, Indices
  <2>4. ~Data(todo[1])
    BY <1>2 DEF Data
  <2>5. todo \in Seq(Plain)
    BY <1>2, <2>3, <2>4, AllPlain
  <2> QED BY <2>1, <2>2, <2>5
<1>7. /\ Paired(todo') /\ Alone(todo') /\ Ordered(todo') /\ todo' \in Seq(T) /\ todo' \in Seq(Waits)
      /\ HasBlock(todo') <=> c + 1 < call.num
      /\ (ccs \/ ~(c + 1 < call.num)) => todo' \in Seq(Plain)
      /\ ~ccs /\ c + 1 < call.num => HasData(todo')
      /\ ~read => ~Past(todo')
  BY <1>1, <1>2, <1>3, NextRoundKeeps DEF Keeps
<1>8. c' = c + 1 /\ c \in Nat /\ moved \in Nat /\ phase \in Phases /\ phase.left \in Nat /\ ccs \in BOOLEAN
  BY <1>1 DEF MoveBlock, TypeOK, Phases
<1>9. fail = "SD_OK" => c < call.num
  BY <1>1, <1>2, <1>3, <1>6 DEF Form
<1>10. Form'
  <2>1. fail = "SD_OK" => IF c + 1 < call.num THEN c' < call.num ELSE c' = call.num
    BY <1>4, <1>8, <1>9
  <2> QED BY <1>3, <1>7, <2>1 DEF Form
<1>11. phase' = [phase EXCEPT !.left = IF @ > 0 THEN @ - 1 ELSE 0, !.buf = "empty"]
       \/ phase' = [phase EXCEPT !.buf = "full"]
  BY DEF MoveBlock
<1>12. phase.left = 0 => phase'.left = 0
  <2>1. CASE phase' = [phase EXCEPT !.left = IF @ > 0 THEN @ - 1 ELSE 0, !.buf = "empty"]
    <3>1. phase'.left = IF phase.left > 0 THEN phase.left - 1 ELSE 0
      BY <1>8, <2>1 DEF Phases
    <3> QED BY <3>1
  <2>2. CASE phase' = [phase EXCEPT !.buf = "full"]
    BY <1>8, <2>2 DEF Phases
  <2> QED BY <1>11, <2>1, <2>2
<1>13. "DAT" \in busy' <=> "DAT" \in busy
  BY DEF MoveBlock
<1>14. Lines'
  <2>1. "DAT" \notin busy' => phase'.left = 0
    BY <1>1, <1>12, <1>13 DEF Lines
  <2>2. ~Exempt' => Asked(todo')
    <3>1. SUFFICES ASSUME ~Exempt' PROVE ~HasData(todo')
      BY DEF HasData, Asked
    <3>2. ccs \/ ~(call.num > 1)
      BY <1>3, <1>8, <3>1 DEF Exempt
    <3>3. ccs \/ ~(c + 1 < call.num)
      BY <1>4, <1>8, <3>2
    <3> QED BY <1>7, <3>3, PlainHas
  <2> QED BY <1>1, <2>1, <2>2 DEF Lines
<1>15. Moving'
  <2>1. SUFFICES ASSUME fail = "SD_OK", ~clash
                 PROVE  /\ read => Reading'
                        /\ ~read => Writing'
    BY <1>4, <1>7 DEF Moving
  <2>2. Sent
    BY <1>6 DEF Sent
  <2>3. read => Reading'
    <3>1. SUFFICES ASSUME read PROVE Reading'
      OBVIOUS
    <3>2. Reading /\ "READ_RDY" \in int
      BY <1>1, <1>5, <2>1, <2>2, <3>1 DEF Moving, Rdy
    <3>3. phase.dir = "read" /\ phase.buf = "full" /\ moved = c
      BY <3>2 DEF Reading
    <3>4. moved' = moved + 1 /\ phase' = [phase EXCEPT !.left = IF @ > 0 THEN @ - 1 ELSE 0, !.buf = "empty"]
      BY <3>3 DEF MoveBlock
    <3>5. phase'.dir = "read"
      BY <1>8, <3>3, <3>4 DEF Phases
    <3>6. "READ_RDY" \notin int'
      BY <1>5, <3>1 DEF Rdy
    <3> QED BY <1>8, <3>3, <3>4, <3>5, <3>6 DEF Reading
  <2>4. ~read => Writing'
    <3>1. SUFFICES ASSUME ~read PROVE Writing'
      OBVIOUS
    <3>2. ~Past(todo)
      BY <1>6 DEF Past
    <3>3. Writing /\ "WRITE_RDY" \in int
      BY <1>1, <1>4, <1>5, <2>1, <2>2, <3>1, <3>2 DEF Moving, Rdy
    <3>4. phase.buf = "open" /\ phase.left > 0 /\ phase # NoPhase /\ phase.dir = "write" /\ "DATA_DONE" \notin int
      BY <3>3 DEF Writing, NoPhase
    <3>5. phase' = [phase EXCEPT !.buf = "full"] /\ moved' = moved
      BY <3>4 DEF MoveBlock
    <3>6. phase'.dir = "write" /\ phase'.left = phase.left /\ phase'.buf = "full"
      BY <1>8, <3>4, <3>5 DEF Phases
    <3>7. Told = IF ccs THEN call.num ELSE c + 1
      BY <1>6 DEF Told
    <3>8. Told' = Told
      <4>1. CASE ccs
        BY <3>7, <4>1 DEF Told
      <4>2. CASE ~ccs
        <5>1. ~(HasBlock(todo') /\ todo' \in Seq(Plain))
          BY <1>7, <4>2, PlainHas
        <5> QED BY <1>8, <3>7, <4>2, <5>1 DEF Told
      <4> QED BY <4>1, <4>2
    <3>9. "WRITE_RDY" \notin int' /\ "DATA_DONE" \notin int'
      BY <1>5, <3>1, <3>4 DEF Rdy
    <3> QED BY <3>3, <3>4, <3>5, <3>6, <3>8, <3>9 DEF Writing
  <2> QED BY <2>3, <2>4
<1> QED BY <1>10, <1>14, <1>15 DEF IInv

\* The end of a transfer has been announced: all its blocks have been moved.
LEMMA DoneMoves ==
  ASSUME IInv, todo # <<>>, TypeOK', UNCHANGED <<call, ccs, c, fail, clash, busy, phase, moved>>,
         Head(todo).k = "int", Done(Head(todo)), call.op # "init", todo' = Tail(todo),
         int \cap Head(todo).mask # {}, Clean, int' = int \ Head(todo).mask
  PROVE  IInv'
<1> DEFINE w == Head(todo)
           T == TransferWaits(call.op = "read", call.num, ccs)
<1>1. TypeOK /\ Form /\ Lines /\ Moving
  BY DEF IInv
<1>2. /\ Running /\ todo \in Seq(Waits) /\ w = todo[1] /\ 1 \in 1 .. Len(todo)
      /\ Paired(todo) /\ Alone(todo) /\ w \in T /\ Tail(todo) \in Seq(T) /\ Ordered(todo)
      /\ call.op \in {"read", "write"} /\ call.num \in Nat \ {0}
  BY <1>1, HeadFacts
<1>3. call.op = "write" /\ w.code = "" /\ "DATA_DONE" \in int
  BY <1>2 DEF TransferWaits
<1>4. ~Asks(w) /\ ~Data(w) /\ w.code # "block"
  BY <1>3 DEF Asks, Data
<1>5. /\ todo' \in Seq(Waits) /\ Paired(todo') /\ Alone(todo') /\ Ordered(todo') /\ Past(todo')
      /\ HasBlock(todo') <=> HasBlock(todo)
      /\ todo' \in Seq(Plain) <=> todo \in Seq(Plain)
      /\ Asked(todo) => Asked(todo')
  BY <1>2, <1>4, TailKeeps
<1>6. Form'
  BY <1>1, <1>2, <1>5 DEF Form
<1>7. Lines'
  BY <1>1, <1>2, <1>5 DEF Lines, Exempt
<1>8. Moving'
  <2>1. SUFFICES ASSUME fail = "SD_OK", ~clash, Sent PROVE Written
    BY <1>3, <1>5 DEF Moving, Sent, Written
  <2>2. ~Past(todo) /\ ~HasBlock(todo)
    BY <1>2 DEF Past, Ordered
  <2>3. Writing
    BY <1>1, <1>3, <2>1, <2>2 DEF Moving
  <2>4. phase.left = 0 /\ phase.dir # "write" /\ moved = Told
    <3>1. phase = NoPhase /\ moved + phase.left = Told
      BY <1>3, <2>3 DEF Writing
    <3>2. phase.left = 0 /\ phase.dir # "write"
      BY <3>1 DEF NoPhase
    <3>3. moved \in Nat /\ moved + 0 = Told
      BY <1>1, <3>1, <3>2 DEF TypeOK
    <3> QED BY <3>2, <3>3
  <2>5. Told = call.num
    BY <1>1, <1>2, <2>1, <2>2 DEF Told, Form
  <2> QED BY <2>4, <2>5 DEF Written
<1> QED BY <1>6, <1>7, <1>8 DEF IInv

\* What the end of a wait for an interrupt does, by its result.
IntOk(w) ==
  /\ todo' = (IF w.code = "block" THEN NextRound ELSE Tail(todo)) /\ cnt' = Polls /\ fail' = fail
  /\ int' = int \ w.mask /\ Clean /\ int \cap w.mask # {}
  /\ CASE w.code = "block" -> MoveBlock
       [] w.code = "scr"   -> busy' = busy \union {"SCR"} /\ UNCHANGED <<c, phase, moved>>
       [] OTHER            -> UNCHANGED <<c, busy, phase, moved>>

IntFails(w) ==
  /\ \E r \in DOMAIN Value \ {"SD_OK"} : Fails(r)
  /\ int' = {} \/ (int' = int \ w.mask /\ w.code \in {"APP_CMD", "SEND_REL_ADDR"})
  /\ UNCHANGED <<c, busy, phase, moved>>

\* sd_int() ends well, or with an error bit or a timeout.
LEMMA IntCases ==
  ASSUME IInv, IntEnds
  PROVE  /\ todo # <<>> /\ Head(todo).k = "int"
         /\ IntOk(Head(todo)) \/ IntFails(Head(todo))
         /\ UNCHANGED <<call, ccs, blkcnt, tries, stat, ready, clash>>
         /\ sd_err' \in {"SD_OK", "SD_TIMEOUT", "SD_ERROR"} /\ sd_rca' \in BOOLEAN /\ resp' \in SUBSET Answers
<1> DEFINE w == Head(todo)
           r == IntResult(w)
           ok == r = "SD_OK"
           refused(answer) == \/ w.code = "APP_CMD" /\ sd_rca /\ "APP" \notin answer
                              \/ w.code = "SEND_REL_ADDR" /\ "ERROR" \in answer
<1>1. PICK answer \in SUBSET {"COMPLETE", "VOLTAGE", "CCS", "ERROR", "APP"} :
        /\ int \cap (w.mask \union Errors) # {} \/ cnt = 0
        /\ IF ok /\ ~refused(answer) THEN Proceed(IF w.code = "block" THEN NextRound ELSE Tail(todo))
           ELSE Fails(CASE ~ok -> r [] w.code = "APP_CMD" -> "SD_ERROR" [] OTHER -> "STATUS")
        /\ int' = IF ok THEN int \ w.mask ELSE {}
        /\ sd_err' = CASE ~ok -> r [] refused(answer) -> "SD_ERROR" [] OTHER -> sd_err
        /\ sd_rca' = IF ok /\ w.code = "SEND_REL_ADDR" THEN TRUE ELSE sd_rca
        /\ resp' = IF ok /\ w.code = "SEND_OP_COND" THEN answer ELSE resp
        /\ CASE ok /\ w.code = "block" -> MoveBlock
             [] ok /\ w.code = "scr"   -> busy' = busy \union {"SCR"} /\ UNCHANGED <<c, phase, moved>>
             [] OTHER                  -> UNCHANGED <<c, busy, phase, moved>>
  BY DEF IntEnds
<1>2. todo # <<>> /\ w.k = "int" /\ UNCHANGED <<call, ccs, blkcnt, tries, stat, ready, clash>>
  BY DEF IntEnds, At
<1>3. r \in {"SD_OK", "SD_TIMEOUT", "SD_ERROR"} /\ TypeOK
  BY DEF IntResult, IInv
<1>4. /\ sd_err' \in {"SD_OK", "SD_TIMEOUT", "SD_ERROR"} /\ sd_rca' \in BOOLEAN /\ resp' \in SUBSET Answers
  <2>1. sd_err' = r \/ sd_err' = "SD_ERROR" \/ sd_err' = sd_err
    BY <1>1
  <2>2. sd_rca' \in BOOLEAN /\ resp' \in SUBSET Answers
    BY <1>1, <1>3 DEF TypeOK, Answers
  <2> QED BY <1>3, <2>1, <2>2 DEF TypeOK
<1>5. ok => Clean /\ cnt # 0
  <2>1. SUFFICES ASSUME ok PROVE Clean /\ cnt # 0
    OBVIOUS
  <2>2. ~(cnt = 0 \/ int \cap {"CTO", "DTO"} # {})
    BY <2>1 DEF IntResult
  <2>3. cnt > 0
    <3>1. cnt \in Nat /\ cnt # 0
      BY <1>3, <2>2 DEF TypeOK
    <3> QED BY <3>1
  <2>4. int \cap Errors # {"ERR"}
    BY <2>1, <2>2, <2>3 DEF IntResult
  <2>5. int \cap Errors = {}
    BY <2>2, <2>4 DEF Errors
  <2> QED BY <2>2, <2>5 DEF Clean
<1>6. CASE ok /\ ~refused(answer)
  <2>1. todo' = (IF w.code = "block" THEN NextRound ELSE Tail(todo)) /\ cnt' = Polls /\ fail' = fail
    BY <1>1, <1>6 DEF Proceed
  <2>2. int' = int \ w.mask /\ Clean /\ int \cap w.mask # {}
    BY <1>1, <1>5, <1>6 DEF Clean
  <2>3. (CASE w.code = "block" -> MoveBlock
           [] w.code = "scr"   -> busy' = busy \union {"SCR"} /\ UNCHANGED <<c, phase, moved>>
           [] OTHER            -> UNCHANGED <<c, busy, phase, moved>>)
    BY <1>1, <1>6
  <2>4. IntOk(w)
    BY <2>1, <2>2, <2>3 DEF IntOk
  <2> QED BY <1>2, <1>4, <2>4
<1>7. CASE ~(ok /\ ~refused(answer))
  <2> DEFINE why == CASE ~ok -> r [] w.code = "APP_CMD" -> "SD_ERROR" [] OTHER -> "STATUS"
  <2>1. Fails(why)
    BY <1>1, <1>7
  <2>2. why \in DOMAIN Value \ {"SD_OK"}
    BY <1>3 DEF Value
  <2>3. UNCHANGED <<c, busy, phase, moved>>
    BY <1>1, <1>7
  <2>4. int' = {} \/ (int' = int \ w.mask /\ w.code \in {"APP_CMD", "SEND_REL_ADDR"})
    BY <1>1, <1>7
  <2> HIDE DEF why
  <2>5. IntFails(w)
    BY <2>1, <2>2, <2>3, <2>4 DEF IntFails
  <2> QED BY <1>2, <1>4, <2>5
<1> QED BY <1>6, <1>7

\* The types after a block has been moved.
LEMMA MoveType ==
  ASSUME TypeOK, MoveBlock
  PROVE  c' \in Nat /\ moved' \in Nat /\ phase' \in Phases /\ busy' \in SUBSET Status
<1>1. c \in Nat /\ moved \in Nat /\ phase \in Phases /\ busy \in SUBSET Status
  BY DEF TypeOK
<1>2. c' = c + 1 /\ (moved' = moved \/ moved' = moved + 1) /\ busy' \subseteq busy
  BY DEF MoveBlock
<1>3. phase' \in Phases
  <2>1. CASE phase.dir = "read"
    <3> DEFINE left == IF phase.left > 0 THEN phase.left - 1 ELSE 0
    <3>1. phase.left \in Nat
      BY <1>1 DEF Phases
    <3>2. left \in Nat
      BY <3>1
    <3>3. phase' = [[phase EXCEPT !.left = left] EXCEPT !.buf = "empty"]
      BY <2>1 DEF MoveBlock
    <3> HIDE DEF left
    <3>4. [phase EXCEPT !.left = left] \in Phases
      BY <1>1, <3>2 DEF Phases
    <3> QED BY <3>3, <3>4 DEF Phases
  <2>2. CASE phase.dir # "read"
    BY <1>1, <2>2 DEF MoveBlock, Phases
  <2> QED BY <2>1, <2>2
<1> QED BY <1>1, <1>2, <1>3

\* The end of sd_int().
LEMMA IntKeeps == ASSUME IInv, IntEnds PROVE IInv'
<1> DEFINE w == Head(todo)
           T == TransferWaits(call.op = "read", call.num, ccs)
<1>1. TypeOK /\ Form /\ Lines /\ Moving /\ todo # <<>> /\ w.k = "int"
  BY IntCases DEF IInv
<1>2. /\ IntOk(w) \/ IntFails(w)
      /\ UNCHANGED <<call, ccs, blkcnt, tries, stat, ready, clash>>
      /\ sd_err' \in {"SD_OK", "SD_TIMEOUT", "SD_ERROR"} /\ sd_rca' \in BOOLEAN /\ resp' \in SUBSET Answers
  BY IntCases
<1>3. /\ Running /\ todo \in Seq(Waits) /\ w = todo[1] /\ w \in Waits
      /\ Paired(todo) /\ Alone(todo) /\ Tail(todo) \in Seq(Waits) /\ 1 \in 1 .. Len(todo)
      /\ call.op = "init" => w \in InitWaits /\ Tail(todo) \in Seq(InitWaits)
      /\ call.op # "init" => w \in T /\ Tail(todo) \in Seq(T) /\ Ordered(todo)
  BY <1>1, HeadFacts
<1>4. w.code = "block" => call.op # "init"
  BY <1>3 DEF InitWaits
<1>5. CASE IntFails(w)
  <2>1. PICK r \in DOMAIN Value \ {"SD_OK"} : Fails(r)
    BY <1>5 DEF IntFails
  <2>2. /\ cnt' = Polls /\ fail' \in DOMAIN Value
        /\ \/ todo' = <<>> /\ fail' # "SD_OK"
           \/ fail' = fail /\ todo' = Tail(todo)
    BY <1>1, <2>1, FailsEnds
  <2>3. UNCHANGED <<c, busy, phase, moved>> /\ int' \subseteq int
    BY <1>1, <1>5 DEF IntFails, TypeOK
  <2>4. TypeOK'
    <3>1. todo' \in Seq(Waits) /\ int' \in SUBSET Interrupts
      BY <1>1, <1>3, <2>2, <2>3, Nothing DEF TypeOK
    <3> QED BY <1>1, <1>2, <1>3, <2>2, <2>3, <3>1, SdAssumption DEF TypeOK, Running
  <2>5. CASE int' = {}
    BY <1>1, <1>2, <2>1, <2>3, <2>4, <2>5, FailsKept
  <2>6. CASE int' # {}
    <3>1. w.code \in {"APP_CMD", "SEND_REL_ADDR"}
      BY <1>5, <2>6 DEF IntFails
    <3>2. call.op = "init"
      <4>1. call.op # "init" => w.code \in {"", "block", "SET_BLOCKCNT", "STOP_TRANS", "READ_SINGLE", "READ_MULTI", "WRITE_SINGLE", "WRITE_MULTI"}
        BY <1>3 DEF TransferWaits, DataCode
      <4> QED BY <3>1, <4>1
    <3>3. "DAT" \notin busy' => phase'.left = 0
      BY <1>1, <2>3 DEF Lines
    <3>4. CASE todo' = <<>> /\ fail' # "SD_OK"
      BY <1>2, <1>3, <2>4, <3>3, <3>4, FailedKept
    <3>5. CASE fail' = fail /\ todo' = Tail(todo)
      <4>1. ~Asks(w)
        BY <1>1 DEF Asks
      <4>2. Paired(todo') /\ Alone(todo') /\ (Asked(todo) => Asked(todo'))
        BY <1>1, <1>3, <3>5, <4>1, TailKeeps
      <4>3. "DAT" \notin busy' \/ Asked(todo')
        BY <1>1, <1>3, <2>3, <3>2, <4>2 DEF Lines, Exempt
      <4> QED BY <1>2, <1>3, <2>4, <3>2, <3>3, <3>5, <4>2, <4>3, InitKept
    <3> QED BY <2>2, <3>4, <3>5
  <2> QED BY <2>5, <2>6
<1>6. CASE IntOk(w) /\ w.code = "block"
  <2>1. /\ todo' = NextRound /\ cnt' = Polls /\ fail' = fail /\ MoveBlock
        /\ int' = int \ w.mask /\ Clean /\ int \cap w.mask # {}
    BY <1>6 DEF IntOk
  <2>2. TypeOK'
    <3>1. c' \in Nat /\ moved' \in Nat /\ phase' \in Phases /\ busy' \in SUBSET Status
      BY <1>1, <2>1, MoveType
    <3>2. todo' \in Seq(Waits) /\ int' \in SUBSET Interrupts
      BY <1>1, <1>3, <1>4, <1>6, <2>1, NextRoundKeeps DEF TypeOK
    <3> QED BY <1>1, <1>2, <1>3, <2>1, <3>1, <3>2, SdAssumption DEF TypeOK, Running
  <2> QED BY <1>1, <1>2, <1>6, <2>1, <2>2, BlockMoves
<1>7. CASE IntOk(w) /\ w.code # "block"
  <2>1. /\ todo' = Tail(todo) /\ cnt' = Polls /\ fail' = fail
        /\ int' = int \ w.mask /\ Clean /\ int \cap w.mask # {}
    BY <1>7 DEF IntOk
  <2>2. UNCHANGED <<c, phase, moved>> /\ (busy' = busy \/ (busy' = busy \union {"SCR"} /\ w.code = "scr"))
    BY <1>7 DEF IntOk
  <2>3. TypeOK'
    <3>1. todo' \in Seq(Waits) /\ int' \in SUBSET Interrupts /\ busy' \in SUBSET Status
      BY <1>1, <1>3, <2>1, <2>2 DEF TypeOK, Status
    <3> QED BY <1>1, <1>2, <1>3, <2>1, <2>2, <3>1, SdAssumption DEF TypeOK, Running
  <2>4. ~Asks(w) /\ ~Data(w) /\ ("DAT" \in busy' <=> "DAT" \in busy)
    BY <1>1, <2>2 DEF Asks, Data
  <2>5. Paired(todo') /\ Alone(todo') /\ (Asked(todo) => Asked(todo'))
    BY <1>1, <1>3, <2>1, <2>4, TailKeeps
  <2>6. CASE call.op = "init"
    <3>1. "DAT" \notin busy' \/ Asked(todo')
      BY <1>1, <1>3, <2>4, <2>5, <2>6 DEF Lines, Exempt
    <3>2. "DAT" \notin busy' => phase'.left = 0
      BY <1>1, <2>2, <2>4 DEF Lines
    <3> QED BY <1>2, <1>3, <2>1, <2>3, <2>5, <2>6, <3>1, <3>2, InitKept
  <2>7. CASE call.op # "init" /\ Done(w)
    <3>1. w.code # "scr"
      BY <1>3, <2>7 DEF TransferWaits
    <3>2. UNCHANGED busy
      BY <2>2, <3>1
    <3> QED BY <1>1, <1>2, <2>1, <2>2, <2>3, <2>7, <3>2, DoneMoves
  <2>8. CASE call.op # "init" /\ ~Done(w)
    <3>1. Same(todo, todo')
      BY <1>1, <1>3, <1>7, <2>1, <2>4, <2>8, TailSame
    <3> QED BY <1>1, <1>2, <1>3, <2>1, <2>2, <2>3, <2>4, <2>5, <2>8, <3>1, TransferKept
  <2> QED BY <2>6, <2>7, <2>8
<1> QED BY <1>2, <1>5, <1>6, <1>7

\* The end of a loop of sd_clk() or of the reset.
LEMMA LoopKeeps == ASSUME IInv, LoopEnds PROVE IInv'
<1> DEFINE w == Head(todo)
<1>1. TypeOK /\ Form /\ Lines /\ todo # <<>> /\ w.k = "loop"
  BY DEF IInv, LoopEnds, At
<1>2. /\ Running /\ todo \in Seq(Waits) /\ w = todo[1] /\ w \in Waits
      /\ Paired(todo) /\ Alone(todo) /\ Tail(todo) \in Seq(Waits)
  BY <1>1, HeadFacts
<1>3. call.op = "init" /\ Tail(todo) \in Seq(InitWaits)
  BY <1>1, HeadFacts DEF TransferWaits
<1>4. /\ UNCHANGED <<call, sd_err, sd_rca, ccs, blkcnt, tries, resp, c, stat, ready, int, phase, moved, clash>>
      /\ busy' \in SUBSET Status /\ ("DAT" \in busy' <=> "DAT" \in busy)
  BY <1>1 DEF LoopEnds, TypeOK, Status
<1>5. "DAT" \notin busy' => phase'.left = 0
  BY <1>1, <1>4 DEF Lines
<1>6. ~Asks(w)
  BY <1>1 DEF Asks
<1>7. /\ Paired(Tail(todo)) /\ Alone(Tail(todo)) /\ (Asked(todo) => Asked(Tail(todo)))
  BY <1>1, <1>2, <1>6, TailKeeps
<1>8. "DAT" \notin busy' \/ Asked(Tail(todo))
  BY <1>1, <1>2, <1>3, <1>4, <1>7 DEF Lines, Exempt
<1>9. /\ cnt' = Polls /\ fail' \in DOMAIN Value
      /\ todo' = Tail(todo) \/ (todo' = <<>> /\ fail' # "SD_OK")
  <2>1. CASE cnt > 0
    BY <1>1, <2>1 DEF LoopEnds, Proceed, TypeOK
  <2>2. CASE ~(cnt > 0)
    <3>1. Fails("SD_ERROR") /\ "SD_ERROR" \in DOMAIN Value \ {"SD_OK"}
      BY <2>2 DEF LoopEnds, Value
    <3> QED BY <1>1, <3>1, FailsEnds
  <2> QED BY <2>1, <2>2
<1>10. TypeOK'
  <2>1. todo' \in Seq(Waits)
    BY <1>2, <1>9, Nothing
  <2> QED BY <1>1, <1>2, <1>4, <1>9, <2>1, SdAssumption DEF TypeOK, Running
<1>11. CASE todo' = Tail(todo)
  BY <1>3, <1>4, <1>5, <1>7, <1>8, <1>10, <1>11, InitKept
<1>12. CASE todo' = <<>> /\ fail' # "SD_OK"
  BY <1>2, <1>4, <1>5, <1>10, <1>12, FailedKept
<1> QED BY <1>9, <1>11, <1>12

\* The steps of sd_init() between its waits.
LEMMA ZeroKeeps == ASSUME IInv, Zero PROVE IInv'
<1>1. TypeOK /\ Form /\ Lines /\ todo # <<>> /\ Head(todo).k = "zero"
  BY DEF IInv, Zero, At
<1>2. /\ Running /\ todo \in Seq(Waits) /\ Head(todo) = todo[1] /\ todo[1] \in Waits
      /\ Paired(todo) /\ Alone(todo) /\ Tail(todo) \in Seq(Waits)
  BY <1>1, HeadFacts
<1>3. call.op = "init" /\ Tail(todo) \in Seq(InitWaits)
  BY <1>1, HeadFacts DEF TransferWaits
<1>4. /\ todo' = Tail(todo) /\ cnt' = Polls /\ tries' = Tries - 1 /\ resp' = {}
      /\ UNCHANGED <<fail, call, c, stat, ready, busy, int, phase, moved, clash>>
      /\ sd_err' = "SD_OK" /\ sd_rca' = FALSE /\ ccs' = FALSE /\ blkcnt' = FALSE
  BY DEF Zero, Proceed, emmc
<1>5. tries' \in Nat
  BY <1>4, SdAssumption
<1>6. TypeOK'
  BY <1>1, <1>2, <1>4, <1>5, SdAssumption DEF TypeOK, Running
<1>7. ~Asks(todo[1])
  BY <1>1, <1>2 DEF Asks
<1>8. Paired(todo') /\ Alone(todo') /\ (Asked(todo) => Asked(todo'))
  BY <1>1, <1>2, <1>4, <1>7, TailKeeps
<1>9. "DAT" \notin busy' \/ Asked(todo')
  BY <1>1, <1>2, <1>3, <1>4, <1>8 DEF Lines, Exempt
<1>10. "DAT" \notin busy' => phase'.left = 0
  BY <1>1, <1>4 DEF Lines
<1> QED BY <1>3, <1>4, <1>6, <1>8, <1>9, <1>10, InitKept

\* A round of the loop around ACMD41.
LEMMA TriedKeeps == ASSUME IInv, Tried PROVE IInv'
<1>1. TypeOK /\ Form /\ Lines /\ todo # <<>> /\ Head(todo).k = "tried"
  BY DEF IInv, Tried, At
<1>2. /\ Running /\ todo \in Seq(Waits) /\ Head(todo) = todo[1] /\ todo[1] \in Waits
  BY <1>1, HeadFacts
<1>3. call.op = "init"
  BY <1>1, HeadFacts DEF TransferWaits
<1>4. UNCHANGED <<call, sd_err, sd_rca, ccs, blkcnt, resp, c, stat, ready, busy, int, phase, moved, clash>>
  BY DEF Tried, emmc
<1>5. "DAT" \notin busy' => phase'.left = 0
  BY <1>1, <1>4 DEF Lines
<1>6. /\ \/ todo' = OpCond /\ cnt' = Polls /\ fail' = fail
         \/ todo' = Identify /\ cnt' = Polls /\ fail' = fail
         \/ \E r \in DOMAIN Value \ {"SD_OK"} : Fails(r)
      /\ tries' \in Nat
  <2>1. "SD_TIMEOUT" \in DOMAIN Value \ {"SD_OK"} /\ "SD_ERROR" \in DOMAIN Value \ {"SD_OK"}
    BY DEF Value
  <2>2. \/ Proceed(OpCond) /\ tries' = tries - 1 /\ tries > 0
        \/ Fails("SD_TIMEOUT") /\ tries' = tries
        \/ Fails("SD_ERROR") /\ tries' = tries
        \/ Proceed(Identify) /\ tries' = tries
        \/ sd_err \notin {"SD_OK", "SD_TIMEOUT"} /\ Fails(sd_err) /\ tries' = tries
    BY DEF Tried
  <2>3. tries \in Nat
    BY <1>1 DEF TypeOK
  <2>4. tries' \in Nat
    BY <2>2, <2>3
  <2>5. sd_err \in {"SD_OK", "SD_TIMEOUT", "SD_ERROR"}
    BY <1>1 DEF TypeOK
  <2> QED BY <2>1, <2>2, <2>4, <2>5 DEF Proceed
<1>7. CASE todo' \in {OpCond, Identify} /\ cnt' = Polls /\ fail' = fail
  <2>1. Sound(todo') /\ todo' \in Seq(Waits)
    <3>1. Sound(OpCond) /\ OpCond \in Seq(Waits)
      BY InitPieces, PieceType DEF Sound
    <3>2. Sound(Identify) /\ Identify \in Seq(Waits)
      <4>1. InitWaits \subseteq Waits
        BY DEF InitWaits
      <4>2. Identify \in Seq(InitWaits)
        BY IdentifySound DEF Sound
      <4> QED BY <4>1, <4>2, IdentifySound, Widen
    <3> QED BY <1>7, <3>1, <3>2
  <2>2. TypeOK'
    BY <1>1, <1>2, <1>4, <1>6, <1>7, <2>1, SdAssumption DEF TypeOK, Running
  <2> QED BY <1>3, <1>4, <1>5, <2>1, <2>2, InitKept DEF Sound
<1>8. CASE \E r \in DOMAIN Value \ {"SD_OK"} : Fails(r)
  <2>1. PICK r \in DOMAIN Value \ {"SD_OK"} : Fails(r)
    BY <1>8
  <2>2. /\ cnt' = Polls /\ fail' \in DOMAIN Value
        /\ \/ todo' = <<>> /\ fail' # "SD_OK"
           \/ todo' = Tail(todo) /\ fail' = fail
    BY <1>1, <2>1, FailsEnds
  <2>3. TypeOK'
    <3>1. todo' \in Seq(Waits)
      BY <1>1, <2>2, HeadFacts, Nothing
    <3> QED BY <1>1, <1>2, <1>4, <1>6, <2>2, <3>1, SdAssumption DEF TypeOK, Running
  <2>4. CASE todo' = <<>> /\ fail' # "SD_OK"
    BY <1>2, <1>4, <1>5, <2>3, <2>4, FailedKept
  <2>5. CASE todo' = Tail(todo)
    <3>1. Paired(todo') /\ Alone(todo') /\ (Asked(todo) => Asked(todo')) /\ todo' \in Seq(InitWaits)
      <4>1. ~Asks(todo[1]) /\ Paired(todo) /\ Alone(todo) /\ Tail(todo) \in Seq(InitWaits)
        BY <1>1, <1>2, <1>3, HeadFacts DEF Asks
      <4> QED BY <1>1, <1>2, <2>5, <4>1, TailKeeps
    <3>2. "DAT" \notin busy' \/ Asked(todo')
      BY <1>1, <1>2, <1>3, <1>4, <3>1 DEF Lines, Exempt
    <3> QED BY <1>3, <1>4, <1>5, <2>3, <3>1, <3>2, InitKept
  <2> QED BY <2>2, <2>4, <2>5
<1> QED BY <1>6, <1>7, <1>8

\* A round of the loop that reads the SCR.
LEMMA ReadScrKeeps == ASSUME IInv, ReadScr PROVE IInv'
<1>1. TypeOK /\ Form /\ Lines /\ todo # <<>> /\ Head(todo).k = "scr"
  BY DEF IInv, ReadScr, At
<1>2. /\ Running /\ todo \in Seq(Waits) /\ Head(todo) = todo[1] /\ todo[1] \in Waits
      /\ Paired(todo) /\ Alone(todo) /\ Tail(todo) \in Seq(Waits)
  BY <1>1, HeadFacts
<1>3. call.op = "init" /\ Tail(todo) \in Seq(InitWaits)
  BY <1>1, HeadFacts DEF TransferWaits
<1>4. UNCHANGED <<call, sd_err, sd_rca, ccs, tries, resp, c, stat, ready, int, moved, clash>>
  BY DEF ReadScr
<1>5. CASE Head(todo).code = "first"
  <2>1. /\ todo' = Tail(todo) /\ cnt' = Polls /\ fail' = fail /\ blkcnt' \in BOOLEAN
        /\ busy' = busy \union {"SCR"} /\ phase' = phase
    BY <1>5 DEF ReadScr, Proceed
  <2>2. TypeOK'
    <3>1. busy' \in SUBSET Status
      BY <1>1, <2>1 DEF TypeOK, Status
    <3> QED BY <1>1, <1>2, <1>4, <2>1, <3>1, SdAssumption DEF TypeOK, Running
  <2>3. ~Asks(todo[1])
    BY <1>1, <1>2 DEF Asks
  <2>4. Paired(todo') /\ Alone(todo') /\ (Asked(todo) => Asked(todo'))
    BY <1>1, <1>2, <2>1, <2>3, TailKeeps
  <2>5. "DAT" \in busy' <=> "DAT" \in busy
    BY <2>1
  <2>6. "DAT" \notin busy' \/ Asked(todo')
    BY <1>1, <1>2, <1>3, <2>4, <2>5 DEF Lines, Exempt
  <2>7. "DAT" \notin busy' => phase'.left = 0
    BY <1>1, <2>1, <2>5 DEF Lines
  <2> QED BY <1>3, <1>4, <2>1, <2>2, <2>4, <2>6, <2>7, InitKept
<1>6. CASE Head(todo).code # "first"
  <2>1. /\ todo' = <<>> \/ todo' = AppCmd("SET_BUS_WIDTH", "end")
        /\ cnt' = Polls /\ fail' = fail /\ UNCHANGED <<blkcnt, busy>>
        /\ phase' = [phase EXCEPT !.left = 0, !.buf = "empty"]
    BY <1>6 DEF ReadScr, Proceed
  <2>2. phase' \in Phases /\ phase'.left = 0
    <3>1. phase \in Phases
      BY <1>1 DEF TypeOK
    <3>2. [phase EXCEPT !.left = 0] \in Phases /\ [phase EXCEPT !.left = 0].left = 0
      BY <3>1 DEF Phases
    <3> DEFINE p == [phase EXCEPT !.left = 0]
    <3>3. phase' = [p EXCEPT !.buf = "empty"]
      BY <2>1
    <3>4. p \in Phases /\ p.left = 0
      BY <3>2
    <3> HIDE DEF p
    <3> QED BY <3>3, <3>4 DEF Phases
  <2>3. Sound(todo') /\ todo' \in Seq(Waits)
    <3>1. Sound(<<>>) /\ <<>> \in Seq(Waits)
      BY Nothing DEF Sound
    <3>2. Sound(AppCmd("SET_BUS_WIDTH", "end")) /\ AppCmd("SET_BUS_WIDTH", "end") \in Seq(Waits)
      BY InitPieces, PieceType DEF Sound
    <3> QED BY <2>1, <3>1, <3>2
  <2>4. TypeOK'
    BY <1>1, <1>2, <1>4, <2>1, <2>2, <2>3, SdAssumption DEF TypeOK, Running
  <2> QED BY <1>3, <1>4, <2>2, <2>3, <2>4, InitKept DEF Sound
<1> QED BY <1>5, <1>6

\* The answer of a call.
LEMMA ReturnKeeps == ASSUME IInv, Return PROVE IInv'
<1>1. /\ Running /\ todo = <<>> /\ call' = NoCall /\ clash' = FALSE
      /\ UNCHANGED <<todo, cnt, fail, sd_err, sd_rca, blkcnt, tries, resp, c, busy, int, phase, moved>>
      /\ (stat' = stat \/ stat' = "") /\ (ready' = ready \/ ready' \in BOOLEAN) /\ (ccs' = ccs \/ ccs' \in BOOLEAN)
  BY DEF Return, Ended
<1>2. TypeOK'
  BY <1>1 DEF IInv, TypeOK, Running, Calls
<1>3. Form'
  BY <1>1, Nothing DEF Form, Running, NoCall
<1>4. Lines'
  BY <1>1 DEF IInv, Lines, Running
<1>5. Moving'
  BY <1>1 DEF Moving, NoCall
<1> QED BY <1>2, <1>3, <1>4, <1>5 DEF IInv

\* A call of the file system.
LEMMA BeginKeeps ==
  ASSUME IInv, NEW op \in {"init", "read", "write"}, NEW num \in Nat, Begin(op, num),
         \/ op = "init" /\ num = 0
         \/ op # "init" /\ num \in Nums
  PROVE  IInv'
<1>1. TypeOK /\ Lines /\ ~Running
  BY DEF IInv, Begin
<1>2. /\ call' = [op |-> op, num |-> num] /\ cnt' = Polls /\ fail' = "SD_OK" /\ c' = 0 /\ moved' = 0
      /\ UNCHANGED <<sd_err, sd_rca, ccs, blkcnt, tries, resp, stat, ready, clash>>
      /\ op = "init" => todo' = sd_init /\ busy' = {"RESET"} /\ int' = {} /\ phase' = NoPhase
      /\ op = "read" => todo' = sd_readblock(num)
      /\ op = "write" => todo' = sd_writeblock(num)
      /\ op # "init" => UNCHANGED <<busy, int, phase>>
  BY DEF Begin
<1>3. call'.op = op /\ call'.num = num /\ Running' /\ clash' = FALSE
  <2>1. call'.op = op /\ call'.num = num
    BY <1>2
  <2>2. clash = FALSE
    <3>1. clash => call.num > 1
      BY <1>1 DEF Lines
    <3>2. call = NoCall
      BY <1>1 DEF Running
    <3>3. call.num = 0
      BY <3>2 DEF NoCall
    <3>4. ~(call.num > 1)
      BY <3>3
    <3>5. clash \in BOOLEAN
      BY <1>1 DEF TypeOK
    <3> QED BY <3>1, <3>4, <3>5
  <2> QED BY <1>2, <2>1, <2>2 DEF Running, NoCall
<1>4. call' \in Calls
  BY <1>2 DEF Calls
<1>5. /\ int' \in SUBSET Interrupts /\ busy' \in SUBSET Status /\ phase' \in Phases
      /\ "DAT" \notin busy' => phase'.left = 0
  <2>1. CASE op = "init"
    BY <1>2, <2>1 DEF Phases, NoPhase, Status
  <2>2. CASE op # "init"
    BY <1>1, <1>2, <2>2 DEF Lines, TypeOK
  <2> QED BY <2>1, <2>2
<1>6. ASSUME todo' \in Seq(Waits) PROVE TypeOK'
  BY <1>1, <1>2, <1>3, <1>4, <1>5, <1>6, SdAssumption DEF TypeOK, Value
<1>7. CASE op = "init"
  <2>1. /\ todo' \in Seq(Waits) /\ todo' \in Seq(InitWaits)
        /\ Alone(todo') /\ Asked(todo') /\ Paired(todo')
    BY <1>2, <1>7, InitPieces, PieceType
  <2>2. Form'
    BY <1>3, <1>7, <2>1 DEF Form
  <2>3. Lines'
    BY <1>3, <1>5, <2>1 DEF Lines
  <2>4. Moving'
    BY <1>3, <1>7 DEF Moving
  <2> QED BY <1>6, <2>1, <2>2, <2>3, <2>4 DEF IInv
<1>8. CASE op # "init"
  <2> DEFINE read == op = "read"
             T == TransferWaits(read, num, ccs)
  <2>1. num \in Nat \ {0} /\ ccs \in BOOLEAN /\ blkcnt \in BOOLEAN /\ read \in BOOLEAN
    BY <1>1, <1>8, SdAssumption DEF TypeOK
  <2>2. \E mask \in SUBSET Status : "DAT" \in mask /\ todo' = sd_status(mask) \o Transfer(read, num)
    <3>1. CASE op = "read"
      BY <1>2, <3>1 DEF sd_readblock, Status
    <3>2. CASE op = "write"
      BY <1>2, <3>2 DEF sd_writeblock, Status
    <3> QED BY <1>8, <3>1, <3>2
  <2>3. /\ Keeps(todo', read, num) /\ HasBlock(todo') /\ HasData(todo') /\ Asked(todo')
    <3>1. PICK mask \in SUBSET Status : "DAT" \in mask /\ todo' = sd_status(mask) \o Transfer(read, num)
      BY <2>2
    <3> QED BY <2>1, <3>1, TransferKeeps
  <2>4. /\ todo' \in Seq(T) /\ Paired(todo') /\ Alone(todo') /\ Ordered(todo')
    BY <2>3 DEF Keeps
  <2>5. todo' \in Seq(Waits)
    BY <2>1, <2>4, TransferType
  <2>6. ~(todo' \in Seq(Plain))
    BY <2>3, <2>5, PlainHas
  <2>7. Form'
    <3>1. c' < call'.num /\ ~(c' > 0)
      BY <1>2, <1>3, <2>1
    <3>2. call'.op # "init" /\ (call'.op = "read" <=> read) /\ ccs' = ccs
      BY <1>2, <1>3, <1>8
    <3> QED BY <1>3, <2>3, <2>4, <3>1, <3>2 DEF Form
  <2>8. Lines'
    BY <1>3, <1>5, <2>3 DEF Lines
  <2>9. Moving'
    <3>1. ~Sent'
      BY <1>2, <2>6 DEF Sent
    <3> QED BY <3>1 DEF Moving
  <2> QED BY <1>6, <2>5, <2>7, <2>8, <2>9 DEF IInv
<1> QED BY <1>7, <1>8

\* A step of the controller: what it leaves alone.
LEMMA ControllerKept ==
  ASSUME IInv, UNCHANGED <<driver, clash>>,
         int' \in SUBSET Interrupts, busy' \in SUBSET Status, phase' \in Phases, moved' \in Nat,
         "DAT" \in busy' => "DAT" \in busy,
         "DAT" \notin busy' => phase'.left = 0,
         Moving'
  PROVE  IInv'
<1>1. UNCHANGED <<call, todo, cnt, fail, sd_err, sd_rca, ccs, blkcnt, tries, resp, c, stat, ready, clash>>
  BY DEF driver
<1>2. TypeOK'
  BY <1>1 DEF IInv, TypeOK, Running
<1>3. Form'
  BY <1>1 DEF IInv, Form, Running
<1>4. Lines'
  BY <1>1 DEF IInv, Lines, Running, Exempt
<1> QED BY <1>2, <1>3, <1>4 DEF IInv

\* The blocks in a step of the controller.
LEMMA ControllerMoves ==
  ASSUME IInv, UNCHANGED driver, clash' = clash,
         ~clash => /\ call.op = "read" /\ Reading => Reading'
                   /\ call.op = "write" /\ Writing /\ Clean' => Writing'
                   /\ call.op = "write" /\ Written => Written',
         Clean' => Clean
  PROVE  Moving'
<1>1. UNCHANGED <<call, todo, fail, ccs, c>>
  BY DEF driver
<1>2. Moving
  BY DEF IInv
<1>3. Sent' = Sent
  BY <1>1 DEF Sent
<1> QED BY <1>1, <1>2, <1>3 DEF Moving

\* Steps of the controller that move no block.
LEMMA AnswerKeeps == ASSUME IInv, Answer \/ Settles \/ WordReady \/ CommandFails PROVE IInv'
<1>1. /\ UNCHANGED <<driver, phase, moved, clash>> /\ busy' \subseteq busy /\ ("DAT" \in busy' <=> "DAT" \in busy)
      /\ \/ int' = int \/ int' = int \union {"CMD_DONE"} \/ int' = int \union {"ERR"} \/ int' = int \union {"CTO"}
  BY DEF Answer, Settles, WordReady, CommandFails
<1>2. TypeOK /\ Lines
  BY DEF IInv
<1>3. int' \in SUBSET Interrupts /\ busy' \in SUBSET Status
  BY <1>1, <1>2 DEF TypeOK, Interrupts, Errors
<1>4. UNCHANGED <<call, todo, fail, ccs, c>>
  BY <1>1 DEF driver
<1>5. /\ Clean' => Clean
      /\ "READ_RDY" \in int' => "READ_RDY" \in int
      /\ "WRITE_RDY" \in int' => "WRITE_RDY" \in int
      /\ "DATA_DONE" \in int' => "DATA_DONE" \in int
  BY <1>1 DEF Clean
<1>6. Told' = Told
  BY <1>4 DEF Told
<1>7. Moving'
  <2>1. Reading => Reading'
    BY <1>1, <1>4, <1>5 DEF Reading
  <2>2. Writing => Writing'
    BY <1>1, <1>4, <1>5, <1>6 DEF Writing
  <2>3. Written => Written'
    BY <1>1, <1>4 DEF Written
  <2> QED BY <1>1, <1>5, <2>1, <2>2, <2>3, ControllerMoves
<1> QED BY <1>1, <1>2, <1>3, <1>7, ControllerKept DEF Lines, TypeOK

\* The controller announces a block.
LEMMA BlockReadyKeeps == ASSUME IInv, BlockReady PROVE IInv'
<1>1. /\ UNCHANGED <<driver, moved, clash>> /\ "DAT" \in busy /\ phase.left > 0 /\ phase.buf = "empty"
      /\ \/ /\ phase.dir = "read" /\ phase' = [phase EXCEPT !.buf = "full"]
            /\ int' = int \union {"READ_RDY"} /\ busy' = busy
         \/ /\ phase.dir # "read" /\ phase' = [phase EXCEPT !.buf = "open"]
            /\ int' = int \union {"WRITE_RDY"} /\ busy' = busy \union {"WRITE_AVAILABLE"}
  BY DEF BlockReady
<1>2. TypeOK /\ phase \in Phases /\ phase.left \in Nat
  BY DEF IInv, TypeOK, Phases
<1>3. int' \in SUBSET Interrupts /\ busy' \in SUBSET Status /\ "DAT" \in busy'
  BY <1>1, <1>2 DEF TypeOK, Interrupts, Status
<1>4. UNCHANGED <<call, todo, fail, ccs, c>>
  BY <1>1 DEF driver
<1>5. /\ phase' \in Phases /\ phase'.left = phase.left /\ phase'.dir = phase.dir
      /\ phase'.buf = IF phase.dir = "read" THEN "full" ELSE "open"
  BY <1>1, <1>2 DEF Phases
<1>6. (Clean' => Clean) /\ Told' = Told
  BY <1>1, <1>4 DEF Clean, Told
<1>7. Moving'
  <2>1. Reading => Reading'
    <3>1. CASE phase.dir = "read"
      BY <1>1, <1>4, <1>5, <3>1 DEF Reading
    <3>2. CASE phase.dir # "read"
      <4>1. Reading => ~("READ_RDY" \in int /\ Clean)
        BY <1>1 DEF Reading
      <4>2. "READ_RDY" \in int' => "READ_RDY" \in int
        BY <1>1, <3>2
      <4> QED BY <1>1, <1>4, <1>5, <1>6, <4>1, <4>2 DEF Reading
    <3> QED BY <3>1, <3>2
  <2>2. Writing => Writing'
    <3>1. SUFFICES ASSUME Writing PROVE Writing'
      OBVIOUS
    <3>2. phase # NoPhase /\ phase.dir = "write" /\ "DATA_DONE" \notin int
      <4>1. phase.left # 0
        BY <1>1, <1>2
      <4> QED BY <3>1, <4>1 DEF Writing, NoPhase
    <3>3. "DATA_DONE" \notin int'
      BY <1>1, <3>2
    <3> QED BY <1>1, <1>5, <1>6, <3>1, <3>2, <3>3 DEF Writing
  <2>3. Written => Written'
    BY <1>1, <1>4, <1>5 DEF Written
  <2> QED BY <1>1, <1>6, <2>1, <2>2, <2>3, ControllerMoves
<1> QED BY <1>1, <1>2, <1>3, <1>5, <1>7, ControllerKept DEF TypeOK

\* A block written goes over the bus.
LEMMA DrainKeeps == ASSUME IInv, Drain PROVE IInv'
<1>1. /\ UNCHANGED <<driver, busy, int, clash>> /\ phase.dir = "write" /\ phase.buf = "full" /\ moved' = moved + 1
      /\ phase' = [phase EXCEPT !.left = IF @ > 0 THEN @ - 1 ELSE 0, !.buf = "empty"]
  BY DEF Drain
<1>2. TypeOK /\ Lines /\ phase \in Phases /\ phase.left \in Nat /\ moved \in Nat
  BY DEF IInv, TypeOK, Phases
<1>3. UNCHANGED <<call, todo, fail, ccs, c>>
  BY <1>1 DEF driver
<1>4. /\ phase' \in Phases /\ phase'.dir = "write" /\ phase'.buf = "empty"
      /\ phase'.left = IF phase.left > 0 THEN phase.left - 1 ELSE 0
  <2> DEFINE left == IF phase.left > 0 THEN phase.left - 1 ELSE 0
             p == [phase EXCEPT !.left = left]
  <2>1. left \in Nat
    BY <1>2
  <2>2. phase' = [p EXCEPT !.buf = "empty"]
    BY <1>1
  <2> HIDE DEF left
  <2>3. p \in Phases /\ p.left = left /\ p.dir = "write"
    BY <1>1, <1>2, <2>1 DEF Phases
  <2> HIDE DEF p
  <2>4. phase' \in Phases /\ phase'.dir = "write" /\ phase'.buf = "empty" /\ phase'.left = left
    BY <2>2, <2>3 DEF Phases
  <2> QED BY <2>4 DEF left
<1>5. (Clean' => Clean) /\ Told' = Told
  BY <1>1, <1>3 DEF Clean, Told
<1>6. Moving'
  <2>1. ~Reading /\ ~Written
    BY <1>1 DEF Reading, Written
  <2>2. Writing => Writing'
    <3>1. SUFFICES ASSUME Writing PROVE Writing'
      OBVIOUS
    <3>2. phase.left > 0 /\ "WRITE_RDY" \notin int /\ "DATA_DONE" \notin int
      BY <1>1, <3>1 DEF Writing, NoPhase
    <3>3. moved' + phase'.left = moved + phase.left
      BY <1>1, <1>2, <1>4, <3>2
    <3> QED BY <1>1, <1>4, <1>5, <3>1, <3>2, <3>3 DEF Writing
  <2> QED BY <1>1, <1>5, <2>1, <2>2, ControllerMoves
<1>7. "DAT" \notin busy' => phase'.left = 0
  BY <1>1, <1>2, <1>4 DEF Lines
<1>8. /\ UNCHANGED <<driver, clash>> /\ ("DAT" \in busy' => "DAT" \in busy)
      /\ int' \in SUBSET Interrupts /\ busy' \in SUBSET Status
  BY <1>1, <1>2 DEF TypeOK
<1>9. moved' \in Nat
  BY <1>1, <1>2
<1> QED BY <1>4, <1>6, <1>7, <1>8, <1>9, ControllerKept

\* The transfer is over for the controller.
LEMMA DataDoneKeeps == ASSUME IInv, DataDone PROVE IInv'
<1>1. /\ UNCHANGED <<driver, moved, clash>> /\ phase' = NoPhase
      /\ (phase.left = 0 /\ phase.buf = "empty") \/ clash
      /\ busy' = busy \ {"DAT"} /\ int' = int \union {"DATA_DONE"}
  BY DEF DataDone
<1>2. TypeOK
  BY DEF IInv
<1>3. int' \in SUBSET Interrupts /\ busy' \in SUBSET Status
  BY <1>1, <1>2 DEF TypeOK, Interrupts
<1>4. UNCHANGED <<call, todo, fail, ccs, c>>
  BY <1>1 DEF driver
<1>5. phase' \in Phases /\ phase'.left = 0 /\ phase'.dir = "none" /\ phase'.buf = "empty"
  BY <1>1 DEF Phases, NoPhase
<1>6. (Clean' => Clean) /\ Told' = Told
  BY <1>1, <1>4 DEF Clean, Told
<1>7. Moving'
  <2>1. ~clash /\ Reading => Reading'
    BY <1>1, <1>4, <1>5, <1>6 DEF Reading
  <2>2. ~clash /\ Writing => Writing'
    BY <1>1, <1>5, <1>6 DEF Writing
  <2>3. Written => Written'
    BY <1>1, <1>4, <1>5 DEF Written
  <2> QED BY <1>1, <1>6, <2>1, <2>2, <2>3, ControllerMoves
<1> QED BY <1>1, <1>2, <1>3, <1>5, <1>7, ControllerKept DEF TypeOK

\* The transfer fails for the controller.
LEMMA DataFailsKeeps == ASSUME IInv, DataFails PROVE IInv'
<1>1. /\ UNCHANGED <<driver, moved, clash>> /\ phase' = NoPhase /\ busy' \subseteq busy
      /\ int' = int \union {"ERR"} \/ int' = int \union {"DTO"}
  BY DEF DataFails
<1>2. TypeOK
  BY DEF IInv
<1>3. int' \in SUBSET Interrupts /\ busy' \in SUBSET Status
  BY <1>1, <1>2 DEF TypeOK, Interrupts, Errors
<1>4. UNCHANGED <<call, todo, fail, ccs, c>>
  BY <1>1 DEF driver
<1>5. phase' \in Phases /\ phase'.left = 0 /\ phase'.dir = "none"
  BY <1>1 DEF Phases, NoPhase
<1>6. ~Clean'
  BY <1>1 DEF Clean, Errors
<1>7. Moving'
  <2>1. Reading => Reading'
    BY <1>1, <1>4, <1>5, <1>6 DEF Reading
  <2>2. Written => Written'
    BY <1>1, <1>4, <1>5 DEF Written
  <2> QED BY <1>1, <1>6, <2>1, <2>2, ControllerMoves
<1> QED BY <1>1, <1>2, <1>3, <1>5, <1>7, ControllerKept DEF TypeOK

-----------------------------------------------------------------------------
(* The theorems. *)

\* The invariant is kept by every step of the driver, the controller and the
\* card.
LEMMA NextIInv == ASSUME IInv, [Next]_vars PROVE IInv'
<1>1. ASSUME Begin("init", 0) PROVE IInv'
  <2>1. "init" \in {"init", "read", "write"} /\ 0 \in Nat /\ "init" = "init" /\ 0 = 0
    OBVIOUS
  <2> QED BY <1>1, <2>1, BeginKeeps
<1>2. ASSUME NEW op \in {"read", "write"}, NEW num \in Nums, Begin(op, num)
      PROVE  IInv'
  <2>1. num \in Nat /\ op \in {"init", "read", "write"} /\ op # "init"
    BY SdAssumption
  <2> QED BY <1>2, <2>1, BeginKeeps
<1>3. CASE Driver
  BY <1>3, PollKeeps, StatusKeeps, LoopKeeps, ZeroKeeps, IntKeeps, TriedKeeps, ReadScrKeeps, ReturnKeeps DEF Driver
<1>4. CASE Controller \/ WordReady
  BY <1>4, AnswerKeeps, BlockReadyKeeps, DrainKeeps, DataDoneKeeps, DataFailsKeeps DEF Controller
<1>5. CASE UNCHANGED vars
  <2>1. UNCHANGED <<call, todo, cnt, fail, sd_err, sd_rca, ccs, blkcnt, tries, resp, c, stat, ready, busy, int, phase, moved, clash>>
    BY <1>5 DEF vars, driver, emmc
  <2>2. TypeOK'
    BY <2>1 DEF IInv, TypeOK, Running
  <2>3. Form'
    BY <2>1 DEF IInv, Form, Running
  <2>4. Lines'
    BY <2>1 DEF IInv, Lines, Running, Exempt
  <2>5. Moving'
    BY <2>1 DEF IInv, Moving, Sent, Reading, Writing, Written, Clean, Told
  <2> QED BY <2>2, <2>3, <2>4, <2>5 DEF IInv
<1> QED BY <1>1, <1>2, <1>3, <1>4, <1>5 DEF Next

\* The invariant on which the theorems below rest.
THEOREM Invariance == Spec => []IInv
<1>1. Init => IInv
  BY InitIInv
<1>2. IInv /\ [Next]_vars => IInv'
  BY NextIInv
<1> QED BY <1>1, <1>2, PTL DEF Spec

\* A count of blocks that is returned is the number of blocks that went over
\* the bus, for any number of blocks and of polls (drivers/sd.c:250).
THEOREM CountsAreTrue == Spec => []CountIsTruth
<1>1. IInv => CountIsTruth
  <2>1. SUFFICES ASSUME IInv, Ended, call.op # "init", sd_ret > 0, ~clash
                 PROVE  moved = call.num
    BY DEF CountIsTruth
  <2>2. TypeOK /\ Moving /\ Running /\ todo = <<>>
    BY <2>1 DEF IInv, Ended
  <2>3. fail = "SD_OK" /\ c = call.num
    BY <2>1 DEF sd_ret
  <2>4. Sent /\ Past(todo)
    BY <2>2, Nothing DEF Sent
  <2>5. call.op \in {"read", "write"}
    BY <2>1, <2>2 DEF TypeOK, Calls, Running
  <2> QED BY <2>1, <2>2, <2>3, <2>4, <2>5 DEF Moving, Reading, Written
<1> QED BY <1>1, Invariance, PTL

\* The data lines are free whenever a data command is sent, but in a transfer
\* of several blocks on a card addressed by bytes (drivers/sd.c:204).
THEOREM LinesAreFree == Spec => []DataCommandsWait
<1>1. IInv => DataCommandsWait
  BY DEF IInv, Lines, DataCommandsWait
<1> QED BY <1>1, Invariance, PTL
=============================================================================
