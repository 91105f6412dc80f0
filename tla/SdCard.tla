------------------------------- MODULE SdCard -------------------------------
(***************************************************************************)
(* The SD card driver (drivers/sd.c) with the disk layer above it          *)
(* (fs/diskio.c), the EMMC controller and the card.                        *)
(*                                                                         *)
(* The driver polls.  A call is the sequence todo of what is still to be   *)
(* waited for up to the next branch of the code: the end of a busy         *)
(* condition (sd_status and the loops of sd_clk and sd_init) or an         *)
(* interrupt (sd_int); what the code does after a wait, the test of the    *)
(* loop over the blocks included, happens in the step that ends it.        *)
(* Between two polls the controller may do anything: answer, fail, be      *)
(* late.                                                                   *)
(***************************************************************************)
EXTENDS Integers, Sequences

CONSTANTS Polls,   \* rounds of a polling loop (500000, 1000000, ... in the code)
          Tries,   \* rounds of ACMD41 (6 in the code)
          Nums     \* numbers of blocks the file system asks for at once

ASSUME SdAssumption == Polls \in Nat \ {0} /\ Tries \in Nat \ {0} /\ Nums \subseteq Nat \ {0}

VARIABLES
  call,    \* what the disk layer has asked for
  todo,    \* what the call still waits for
  cnt,     \* rounds left in the present wait
  fail,    \* why the call ends early: a key of Value
  sd_err, sd_rca, ccs, blkcnt,  \* as found out (ccs, blkcnt: bits of sd_scr[0])
  tries, resp,                  \* the loop of ACMD41 and the last answer in it
  c,       \* blocks the driver has moved
  stat,    \* stat of the disk layer
  ready,   \* the file system took the last disk_initialize() for a success
  busy,    \* busy conditions: EMMC_STATUS and the loops of sd_clk() and sd_init()
  int,     \* EMMC_INTERRUPT
  phase,   \* the data phase of the controller
  moved,   \* blocks that really went over the bus in this call (history)
  clash    \* a data command was sent while the data lines were busy (history)

driver == <<call, todo, cnt, fail, sd_err, sd_rca, ccs, blkcnt, tries, resp, c, stat, ready>>
emmc   == <<busy, int, phase, moved, clash>>
vars   == <<driver, emmc>>

Errors  == {"ERR", "CTO", "DTO"}        \* INT_ERROR_MASK, with both timeouts
NoCall  == [op |-> "none", num |-> 0]
NoPhase == [dir |-> "none", left |-> 0, buf |-> "empty"]
DataCommands == {"READ_SINGLE", "READ_MULTI", "WRITE_SINGLE", "WRITE_MULTI", "SEND_SCR"}

-----------------------------------------------------------------------------
(* The programs.  on: what a failure does: end the call, skip the command,  *)
(* or "app", end the call if the card has an address and go on if not.      *)

Wait(k, mask, code, on) == <<[k |-> k, mask |-> mask, code |-> code, on |-> on]>>

sd_status(mask) == Wait("status", mask, "", "end")
sd_int(mask)    == Wait("int", {mask}, "", "end")
Block(mask)     == Wait("int", {mask}, "block", "end")

sd_cmd(code, on) == Wait("status", {"CMD"}, code, on) \o Wait("int", {"CMD_DONE"}, code, on)

\* A command with CMD_NEED_APP.
AppCmd(code, on) == sd_cmd("APP_CMD", "app") \o sd_cmd(code, on)

\* sd_clk() looks at no error bit.
sd_clk == Wait("loop", {"CMD", "DAT"}, "clock", "end") \o Wait("loop", {"CLOCK"}, "", "end")

Only(b, s) == IF b THEN s ELSE <<>>

Single(read) == sd_cmd(IF read THEN "READ_SINGLE" ELSE "WRITE_SINGLE", "end")
Multi(read)  == sd_cmd(IF read THEN "READ_MULTI" ELSE "WRITE_MULTI", "end")

\* One round of the loop over the blocks.
Round(read) == Only(~ccs, Single(read)) \o Block(IF read THEN "READ_RDY" ELSE "WRITE_RDY")

\* A transfer up to its first block.
Transfer(read, num) ==
  Only(ccs /\ num > 1 /\ blkcnt, sd_cmd("SET_BLOCKCNT", "end"))
  \o (Only(ccs, IF num = 1 THEN Single(read) ELSE Multi(read)) \o Round(read))

\* What follows its last block.
Closing(read, num) ==
  Only(~read, sd_int("DATA_DONE")) \o Only(ccs /\ num > 1 /\ ~blkcnt, sd_cmd("STOP_TRANS", "skip"))

sd_readblock(num) == sd_status({"DAT"}) \o Transfer(TRUE, num)
\* Mutant of sd_writeblock: it waits for room in the buffer only.
sd_writeblock_hurried(num) == sd_status({"WRITE_AVAILABLE"}) \o Transfer(FALSE, num)

sd_writeblock(num) == sd_status({"DAT", "WRITE_AVAILABLE"}) \o Transfer(FALSE, num)

OpCond == AppCmd("SEND_OP_COND", "skip") \o Wait("tried", {}, "", "end")

sd_init ==
  Wait("loop", {"RESET"}, "", "end") \o sd_clk \o Wait("zero", {}, "", "end")
  \o sd_cmd("GO_IDLE", "end") \o sd_cmd("SEND_IF_COND", "end") \o OpCond

\* sd_init() once the card has answered to ACMD41.
Identify ==
  sd_cmd("ALL_SEND_CID", "skip") \o sd_cmd("SEND_REL_ADDR", "end") \o sd_clk
  \o sd_cmd("CARD_SELECT", "end") \o sd_status({"DAT"}) \o AppCmd("SEND_SCR", "end")
  \o Wait("int", {"READ_RDY"}, "scr", "end")
  \o Wait("scr", {}, "first", "end") \o Wait("scr", {}, "second", "end")

-----------------------------------------------------------------------------
(* The driver. *)

Running == call # NoCall
Ended   == Running /\ todo = <<>>
At(k)   == todo # <<>> /\ Head(todo).k = k

\* The wait at the head of todo has succeeded.
Proceed(rest) == todo' = rest /\ cnt' = Polls /\ UNCHANGED fail

\* It has failed with r.
Fails(r) ==
  LET w    == Head(todo)
      ends == w.on = "end" \/ (w.on = "app" /\ sd_rca)
  IN  /\ cnt' = Polls
      /\ fail' = IF ends THEN (IF w.on = "app" THEN "SD_ERROR" ELSE r) ELSE fail
      /\ todo' = IF ends THEN <<>>
                 ELSE IF w.k = "status" THEN SubSeq(todo, 3, Len(todo)) ELSE Tail(todo)

\* A call of the file system: it mounts again whenever it has no volume, and
\* transfers blocks only while it has one.
Begin(op, num) ==
  /\ ~Running /\ (op # "init" => ready)
  /\ call' = [op |-> op, num |-> num]
  /\ todo' = CASE op = "init" -> sd_init [] op = "read" -> sd_readblock(num)
               [] op = "write" -> sd_writeblock(num)
  /\ cnt' = Polls /\ fail' = "SD_OK" /\ c' = 0 /\ moved' = 0
  /\ IF op = "init" THEN busy' = {"RESET"} /\ int' = {} /\ phase' = NoPhase
     ELSE UNCHANGED <<busy, int, phase>>
  /\ UNCHANGED <<sd_err, sd_rca, ccs, blkcnt, tries, resp, stat, ready, clash>>

\* Mutant of Poll: cnt is tested but not counted down, as in the loop for the SCR.
Poll_uncounted ==
  /\ \/ At("int") /\ int \cap (Head(todo).mask \union Errors) = {}
     \/ At("status") /\ busy \cap Head(todo).mask # {} /\ int \cap Errors = {}
     \/ At("loop") /\ busy \cap Head(todo).mask # {}
  /\ cnt > 0 /\ UNCHANGED vars

\* One round of a loop whose condition still holds: cnt--, and a delay.
Poll ==
  /\ \/ At("int") /\ int \cap (Head(todo).mask \union Errors) = {}
     \/ At("status") /\ busy \cap Head(todo).mask # {} /\ int \cap Errors = {}
     \/ At("loop") /\ busy \cap Head(todo).mask # {}
  /\ cnt > 0 /\ cnt' = cnt - 1
  /\ UNCHANGED <<call, todo, fail, sd_err, sd_rca, ccs, blkcnt, tries, resp, c, stat, ready, emmc>>

\* The controller gets a command: all interrupts are cleared, then CMDTM written.
Send(code) ==
  LET data == code \in DataCommands
      multi == code \in {"READ_MULTI", "WRITE_MULTI"}
  IN  /\ int' = {}
      /\ busy' = busy \union {"CMD"} \union (IF data THEN {"DAT"} ELSE {})
      /\ clash' = (clash \/ (data /\ "DAT" \in busy))
      /\ phase' = IF data
                  THEN [dir |-> IF code \in {"WRITE_SINGLE", "WRITE_MULTI"} THEN "write" ELSE "read",
                        left |-> phase.left + IF multi THEN call.num ELSE 1, buf |-> phase.buf]
                  ELSE phase
      /\ moved' = IF data /\ c = 0 THEN 0 ELSE moved

\* The end of sd_status(), and in sd_cmd() the command itself.
StatusEnds ==
  /\ At("status")
  /\ LET w  == Head(todo)
         ok == cnt > 0 /\ int \cap Errors = {}
     IN  /\ busy \cap w.mask = {} \/ int \cap Errors # {} \/ cnt = 0
         /\ IF ok THEN Proceed(Tail(todo)) ELSE Fails("SD_TIMEOUT")
         /\ IF ok /\ w.code # "" THEN Send(w.code) ELSE UNCHANGED emmc
         /\ sd_err' = CASE ~ok -> "SD_TIMEOUT"
                        [] ok /\ w.code \in {"", "SEND_OP_COND", "SEND_SCR", "SET_BUS_WIDTH"} -> sd_err
                        [] OTHER -> "SD_OK"
  /\ UNCHANGED <<call, sd_rca, ccs, blkcnt, tries, resp, c, stat, ready>>

\* The end of a loop of sd_clk() or of the reset.
LoopEnds ==
  /\ At("loop") /\ (busy \cap Head(todo).mask = {} \/ cnt = 0)
  /\ IF cnt > 0 THEN Proceed(Tail(todo)) ELSE Fails("SD_ERROR")
  /\ busy' = IF cnt > 0 /\ Head(todo).code = "clock" THEN busy \union {"CLOCK"} ELSE busy
  /\ UNCHANGED <<call, sd_err, sd_rca, ccs, blkcnt, tries, resp, c, stat, ready, int, phase, moved, clash>>

Zero ==
  /\ At("zero") /\ Proceed(Tail(todo))
  /\ sd_err' = "SD_OK" /\ sd_rca' = FALSE /\ ccs' = FALSE /\ blkcnt' = FALSE
  /\ tries' = Tries - 1 /\ resp' = {}
  /\ UNCHANGED <<call, c, stat, ready, emmc>>

\* Mutant of IntResult: the error bits are looked at only when time is up.
IntResult_errors_ignored(w) ==
  CASE cnt = 0 -> "SD_TIMEOUT" [] OTHER -> "SD_OK"

IntResult(w) ==
  CASE cnt = 0 \/ int \cap {"CTO", "DTO"} # {} -> "SD_TIMEOUT"
    [] cnt > 0 /\ int \cap Errors = {"ERR"}    -> "SD_ERROR"
    [] OTHER                                   -> "SD_OK"

\* while (c < num), once a block has been moved.
NextRound ==
  LET read == call.op = "read"
  IN  IF c + 1 < call.num THEN Round(read) ELSE Closing(read, call.num)

\* A block goes through EMMC_DATA.
MoveBlock ==
  /\ c' = c + 1
  /\ IF phase.dir = "read"
     THEN /\ phase' = [phase EXCEPT !.left = IF @ > 0 THEN @ - 1 ELSE 0, !.buf = "empty"]
          /\ moved' = IF phase.buf = "full" THEN moved + 1 ELSE moved
          /\ UNCHANGED busy
     ELSE /\ phase' = [phase EXCEPT !.buf = "full"]
          /\ busy' = busy \ {"WRITE_AVAILABLE"}
          /\ UNCHANGED moved

\* The end of sd_int(): the bits it saw are cleared if it fails, else its own.
\* After a command the answer is looked at; answer: what the card put into it.
IntEnds ==
  /\ At("int")
  /\ \E answer \in SUBSET {"COMPLETE", "VOLTAGE", "CCS", "ERROR", "APP"} :
       LET w == Head(todo)
           r == IntResult(w)
           refused == \/ w.code = "APP_CMD" /\ sd_rca /\ "APP" \notin answer
                      \/ w.code = "SEND_REL_ADDR" /\ "ERROR" \in answer
           ok == r = "SD_OK"
       IN  /\ int \cap (w.mask \union Errors) # {} \/ cnt = 0
           /\ answer \subseteq CASE w.code = "SEND_OP_COND"  -> {"COMPLETE", "VOLTAGE", "CCS"}
                                 [] w.code = "SEND_REL_ADDR" -> {"ERROR"}
                                 [] w.code = "APP_CMD"       -> {"APP"}
                                 [] OTHER                    -> {}
           /\ IF ok /\ ~refused
              THEN Proceed(IF w.code = "block" THEN NextRound ELSE Tail(todo))
              ELSE Fails(CASE ~ok -> r [] w.code = "APP_CMD" -> "SD_ERROR" [] OTHER -> "STATUS")
           /\ int' = IF ok THEN int \ w.mask ELSE {}
           /\ sd_err' = CASE ~ok -> r [] refused -> "SD_ERROR" [] OTHER -> sd_err
           /\ sd_rca' = IF ok /\ w.code = "SEND_REL_ADDR" THEN TRUE ELSE sd_rca
           /\ resp' = IF ok /\ w.code = "SEND_OP_COND" THEN answer ELSE resp
           /\ CASE ok /\ w.code = "block" -> MoveBlock
                [] ok /\ w.code = "scr"   -> busy' = busy \union {"SCR"} /\ UNCHANGED <<c, phase, moved>>
                [] OTHER                  -> UNCHANGED <<c, busy, phase, moved>>
  /\ UNCHANGED <<call, ccs, blkcnt, tries, stat, ready, clash>>

\* The end of a round of ACMD41.  The lines that printed the parts of the answer
\* are commented out and their conditions are not, so that the test for an error
\* is reached with a complete answer only: it finds what a CMD55 left in sd_err
\* that failed while the card had no address.  An answer in the last round is
\* taken for none.
Tried ==
  /\ At("tried")
  /\ LET complete == "COMPLETE" \in resp
         error    == {"COMPLETE", "VOLTAGE", "CCS"} \subseteq resp /\ sd_err \notin {"SD_OK", "SD_TIMEOUT"}
     IN  CASE error -> Fails(sd_err) /\ UNCHANGED tries
           [] ~error /\ ~complete /\ tries > 0 -> Proceed(OpCond) /\ tries' = tries - 1
           [] ~error /\ tries = 0 -> Fails("SD_TIMEOUT") /\ UNCHANGED tries
           [] ~error /\ complete /\ tries > 0 /\ "VOLTAGE" \notin resp ->
                Fails("SD_ERROR") /\ UNCHANGED tries
           [] OTHER -> Proceed(Identify) /\ UNCHANGED tries
  /\ UNCHANGED <<call, sd_err, sd_rca, ccs, blkcnt, resp, c, stat, ready, emmc>>

\* The two words of the SCR: no round of this loop is counted.
ReadScr ==
  /\ At("scr") /\ "SCR" \notin busy
  /\ IF Head(todo).code = "first"
     THEN Proceed(Tail(todo)) /\ blkcnt' \in BOOLEAN /\ busy' = busy \union {"SCR"} /\ UNCHANGED phase
     ELSE /\ Proceed(<<>>) \/ Proceed(AppCmd("SET_BUS_WIDTH", "end"))
          /\ phase' = [phase EXCEPT !.left = 0, !.buf = "empty"]
          /\ UNCHANGED <<blkcnt, busy>>
  /\ UNCHANGED <<call, sd_err, sd_rca, ccs, tries, resp, c, stat, ready, int, moved, clash>>

\* The values of SD_OK, SD_TIMEOUT, SD_ERROR, and of the error bits of the card
\* status, which sd_init() returns as they are.
Value == [SD_OK |-> 0, SD_TIMEOUT |-> -1, SD_ERROR |-> -2, STATUS |-> 1]

\* What the driver returns (in blocks).
sd_ret ==
  IF call.op = "init" THEN Value[fail]
  ELSE IF fail # "SD_OK" \/ sd_err # "SD_OK" \/ c # call.num THEN 0 ELSE call.num

\* What the disk layer makes of it.
disk_res == IF sd_ret < 0 THEN "RES_ERROR" ELSE "RES_OK"

Return ==
  /\ Ended /\ call' = NoCall /\ clash' = FALSE
  /\ IF call.op = "init"
     THEN /\ stat' = IF disk_res = "RES_OK" THEN "" ELSE stat
          /\ ready' = (disk_res = "RES_OK")
          /\ ccs' = (fail = "SD_OK" /\ "CCS" \in resp)
     ELSE UNCHANGED <<stat, ready, ccs>>
  /\ UNCHANGED <<todo, cnt, fail, sd_err, sd_rca, blkcnt, tries, resp, c, busy, int, phase, moved>>

-----------------------------------------------------------------------------
(* The controller and the card. *)

Answer ==
  /\ "CMD" \in busy /\ busy' = busy \ {"CMD"} /\ int' = int \union {"CMD_DONE"}
  /\ UNCHANGED <<driver, phase, moved, clash>>

\* A command fails, and the controller may stay busy with it.
CommandFails ==
  /\ "CMD" \in busy /\ \E e \in {"ERR", "CTO"} : int' = int \union {e}
  /\ busy' \in {busy, busy \ {"CMD"}}
  /\ UNCHANGED <<driver, phase, moved, clash>>

BlockReady ==
  /\ "DAT" \in busy /\ phase.left > 0 /\ phase.buf = "empty"
  /\ IF phase.dir = "read"
     THEN phase' = [phase EXCEPT !.buf = "full"] /\ int' = int \union {"READ_RDY"} /\ UNCHANGED busy
     ELSE /\ phase' = [phase EXCEPT !.buf = "open"] /\ int' = int \union {"WRITE_RDY"}
          /\ busy' = busy \union {"WRITE_AVAILABLE"}
  /\ UNCHANGED <<driver, moved, clash>>

Drain ==
  /\ phase.dir = "write" /\ phase.buf = "full"
  /\ phase' = [phase EXCEPT !.left = IF @ > 0 THEN @ - 1 ELSE 0, !.buf = "empty"]
  /\ moved' = moved + 1
  /\ UNCHANGED <<driver, busy, int, clash>>

\* What a controller does with a transfer begun on top of another is not
\* known: it may end at any time.
DataDone ==
  /\ "DAT" \in busy
  /\ \/ phase.left = 0 /\ phase.buf = "empty"
     \/ clash
  /\ busy' = busy \ {"DAT"} /\ int' = int \union {"DATA_DONE"} /\ phase' = NoPhase
  /\ UNCHANGED <<driver, moved, clash>>

DataFails ==
  /\ "DAT" \in busy /\ \E e \in {"ERR", "DTO"} : int' = int \union {e}
  /\ phase' = NoPhase /\ busy' \in {busy, busy \ {"DAT", "WRITE_AVAILABLE"}}
  /\ UNCHANGED <<driver, moved, clash>>

Settles ==
  /\ \E b \in {"RESET", "CLOCK"} \intersect busy : busy' = busy \ {b}
  /\ UNCHANGED <<driver, int, phase, moved, clash>>

WordReady ==
  /\ At("scr") /\ "SCR" \in busy /\ busy' = busy \ {"SCR"}
  /\ UNCHANGED <<driver, int, phase, moved, clash>>

-----------------------------------------------------------------------------
Init ==
  /\ call = NoCall /\ todo = <<>> /\ cnt = 0 /\ fail = "SD_OK"
  /\ sd_err = "SD_OK" /\ sd_rca = FALSE /\ ccs = FALSE /\ blkcnt = FALSE
  /\ tries = 0 /\ resp = {} /\ c = 0 /\ stat = "STA_NOINIT" /\ ready = FALSE
  /\ busy = {} /\ int = {} /\ phase = NoPhase /\ moved = 0 /\ clash = FALSE

Driver == Poll \/ StatusEnds \/ LoopEnds \/ Zero \/ IntEnds \/ Tried \/ ReadScr \/ Return

Controller ==
  \/ Answer \/ CommandFails \/ BlockReady \/ Drain \/ DataDone \/ DataFails \/ Settles

Next ==
  \/ Begin("init", 0)
  \/ \E op \in {"read", "write"}, num \in Nums : Begin(op, num)
  \/ Driver \/ Controller \/ WordReady

\* The processor runs on; the controller owes nothing but the words of a block
\* it has announced (WordReady), on which the loop for the SCR rests.
Spec == Init /\ [][Next]_vars /\ WF_vars(Driver) /\ WF_vars(WordReady)

-----------------------------------------------------------------------------
\* A transfer that returns its number of blocks has moved them all, whatever
\* answers, errors and interrupts of this or an earlier, abandoned transfer
\* came in between -- unless commands were sent over busy data lines.
CountIsTruth ==
  Ended /\ call.op # "init" /\ sd_ret > 0 /\ ~clash => moved = call.num

\* The only data commands sent while the data lines are busy are those of a
\* transfer of several blocks on a card addressed by bytes, where the loop
\* does not wait for the end of the block before.
DataCommandsWait == clash => call.op # "init" /\ call.num > 1 /\ ~ccs

\* Fails: a transfer that did not move all its blocks is not RES_OK, which
\* diskio.h:19 says is "Successful".  sd_readblock() and sd_writeblock() report a
\* failure as 0, and the disk layer tests for less than 0 (diskio.c:63, 86), so
\* that no error of the card ever reaches FatFs.
FailureIsTold ==
  Ended /\ call.op # "init" /\ ~clash /\ moved # call.num => disk_res = "RES_ERROR"

\* Whatever the controller does or fails to do, each call of the driver ends:
\* every wait is counted, but the one for the words of the SCR.
CallsEnd == Running ~> ~Running
=============================================================================
