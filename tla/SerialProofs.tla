---------------------------- MODULE SerialProofs ----------------------------
(***************************************************************************)
(* For any number of guests and any size of the buffers: the output buffer *)
(* of the connected VM is empty whenever a guest runs, hence a connected   *)
(* VM loses nothing; the order of the output is kept; and the escape flag  *)
(* never outlives a connection.  At the end, the ring buffer of Console:   *)
(* it implements a queue.                                                  *)
(***************************************************************************)
EXTENDS Serial, Console, SequenceTheorems, TLAPS

Outputs == [VMs -> [held : Seq(Nat), sent : Seq(Nat)]]

\* The line of v as lines describes it.
LineOf(lines, v) == lines[v].sent \o lines[v].held

Increasing(s, top) ==
  /\ s \in Seq(Nat)
  /\ \A i \in 1 .. Len(s) : s[i] <= top
  /\ \A i, j \in 1 .. Len(s) : i < j => s[i] < s[j]

\* Buffers within their size, lines in order up to what each VM wrote.
Sound(lines, top) ==
  /\ lines \in Outputs
  /\ \A v \in VMs : Len(lines[v].held) <= Size
  /\ \A v \in VMs : Increasing(LineOf(lines, v), top[v])

\* The shell does not write to its own buffer, so that !1 finds it empty; and
\* whoever leaves a VM has completed the escape.
IInv ==
  /\ TypeOK
  /\ Drained
  /\ output[Shell].held = <<>>
  /\ EscapeIsLast
  /\ vm_connected_to_uart = Shell => ~escape_char_pressed
  /\ Sound(output, said)

-----------------------------------------------------------------------------
(* Sequences *)

\* Appending to the second of two sequences appends to both.
LEMMA AppendToConcat ==
  ASSUME NEW s \in Seq(Nat), NEW t \in Seq(Nat), NEW n \in Nat
  PROVE  s \o Append(t, n) = Append(s \o t, n)
<1> DEFINE u == <<n>>
<1>1. u \in Seq(Nat)
  OBVIOUS
<1>2. Append(t, n) = t \o u
  BY AppendIsConcat
<1>3. s \o t \in Seq(Nat)
  BY ConcatProperties
<1>4. Append(s \o t, n) = (s \o t) \o u
  BY <1>3, AppendIsConcat
<1>5. \A r \in Seq(Nat) : (s \o t) \o r = s \o (t \o r)
  OBVIOUS
<1> HIDE DEF u
<1> QED BY <1>1, <1>2, <1>4, <1>5

\* The first of two sequences is a prefix of both.
LEMMA ConcatPrefix ==
  ASSUME NEW s \in Seq(Nat), NEW t \in Seq(Nat)
  PROVE  /\ Len(s) <= Len(s \o t)
         /\ \A i \in 1 .. Len(s) : (s \o t)[i] = s[i]
<1>1. Len(s) \in Nat /\ Len(t) \in Nat
  OBVIOUS
<1>2. Len(s \o t) = Len(s) + Len(t)
  BY ConcatProperties
<1>3. \A i \in 1 .. Len(s) + Len(t) : (s \o t)[i] = IF i <= Len(s) THEN s[i] ELSE t[i - Len(s)]
  BY ConcatProperties
<1> QED BY <1>1, <1>2, <1>3

-----------------------------------------------------------------------------
(* The buffers *)

\* console_flush() moves what is held onto the line.
LEMMA FlushedKeeps ==
  ASSUME NEW lines \in Outputs, NEW v \in VMs
  PROVE  /\ Flushed(lines, v) \in Outputs
         /\ Flushed(lines, v)[v].held = <<>>
         /\ Flushed(lines, v)[v].sent = LineOf(lines, v)
         /\ \A w \in VMs \ {v} : Flushed(lines, v)[w] = lines[w]
         /\ \A w \in VMs : LineOf(Flushed(lines, v), w) = LineOf(lines, w)
<1>1. lines[v].held \in Seq(Nat) /\ lines[v].sent \in Seq(Nat)
  BY DEF Outputs
<1>2. lines[v].sent \o lines[v].held \in Seq(Nat)
  BY <1>1
<1>3. /\ Flushed(lines, v) \in Outputs
      /\ Flushed(lines, v)[v].held = <<>>
      /\ Flushed(lines, v)[v].sent = LineOf(lines, v)
      /\ \A w \in VMs \ {v} : Flushed(lines, v)[w] = lines[w]
  <2> DEFINE line == lines[v].sent \o lines[v].held
  <2>0. line \in Seq(Nat)
    BY <1>2
  <2> HIDE DEF line
  <2> DEFINE r == [held |-> <<>>, sent |-> line]
  <2>1. r \in [held : Seq(Nat), sent : Seq(Nat)] /\ r.held = <<>> /\ r.sent = line
    BY <2>0
  <2>2. Flushed(lines, v) = [lines EXCEPT ![v] = r]
    BY DEF Flushed, line
  <2> HIDE DEF r
  <2>3. /\ [lines EXCEPT ![v] = r] \in Outputs
        /\ [lines EXCEPT ![v] = r][v] = r
        /\ \A w \in VMs \ {v} : [lines EXCEPT ![v] = r][w] = lines[w]
    BY <2>1 DEF Outputs
  <2> QED BY <2>1, <2>2, <2>3 DEF line, LineOf
<1>4. LineOf(lines, v) \o <<>> = LineOf(lines, v)
  BY <1>2, ConcatEmptySeq DEF LineOf
<1> QED BY <1>3, <1>4 DEF LineOf

\* Flushing keeps the order and empties one buffer.
LEMMA FlushedSound ==
  ASSUME NEW lines, NEW top, Sound(lines, top), NEW v \in VMs
  PROVE  Sound(Flushed(lines, v), top)
<1>1. \A w \in VMs : Len(Flushed(lines, v)[w].held) <= Size
  BY FlushedKeeps, SerialAssumption DEF Sound
<1> QED BY <1>1, FlushedKeeps DEF Sound

\* vcpu_exit() keeps the order of the output.
LEMMA ExitedSound ==
  ASSUME NEW lines, NEW top, Sound(lines, top), NEW v \in VMs
  PROVE  Sound(Exited(lines, v), top)
BY FlushedSound DEF Exited

\* So does vcpu_enter().
LEMMA EnteredSound ==
  ASSUME NEW lines, NEW top, Sound(lines, top), NEW v \in VMs, NEW u
  PROVE  Sound(Entered(lines, v, u), top)
BY FlushedSound DEF Entered

\* Nothing to flush, nothing flushed.
LEMMA FlushedNothing ==
  ASSUME NEW lines \in Outputs, NEW v \in VMs, lines[v].held = <<>>
  PROVE  Flushed(lines, v) = lines
<1>1. lines[v].sent \in Seq(Nat)
  BY DEF Outputs
<1>2. lines[v].sent \o <<>> = lines[v].sent
  BY <1>1, ConcatEmptySeq
<1>3. lines[v] = [held |-> <<>>, sent |-> lines[v].sent]
  BY DEF Outputs
<1> QED BY <1>2, <1>3 DEF Flushed, Outputs

\* Between exceptions there is nothing left to flush.
LEMMA NothingToFlush ==
  ASSUME IInv, NEW v \in VMs
  PROVE  /\ Exited(output, v) = output
         /\ Entered(output, v, vm_connected_to_uart) = output
<1>1. output \in Outputs /\ vm_connected_to_uart \in VMs
  BY DEF IInv, Sound, TypeOK
<1> QED BY <1>1, FlushedNothing DEF IInv, Drained, Exited, Entered

\* A later number keeps a sequence increasing.
LEMMA AppendIncreasing ==
  ASSUME NEW s, NEW top \in Nat, Increasing(s, top)
  PROVE  Increasing(Append(s, top + 1), top + 1)
BY DEF Increasing

\* One more number, stored or not, and the front part of a line.
LEMMA PushedIncreasing ==
  ASSUME NEW s \in Seq(Nat), NEW h \in Seq(Nat), NEW n \in Nat, Increasing(s \o h, n)
  PROVE  Increasing(s \o Pushed(h, n + 1), n + 1)
<1>1. CASE Len(h) < Size
  <2>1. s \o Pushed(h, n + 1) = Append(s \o h, n + 1)
    BY <1>1, AppendToConcat DEF Pushed
  <2> QED BY <2>1, AppendIncreasing
<1>2. CASE ~(Len(h) < Size)
  <2>1. s \o Pushed(h, n + 1) = s \o h
    BY <1>2 DEF Pushed
  <2>2. Increasing(s \o h, n + 1)
    <3> DEFINE l == s \o h
    <3>1. Increasing(l, n)
      OBVIOUS
    <3> HIDE DEF l
    <3>2. Increasing(l, n + 1)
      <4>1. \A i \in 1 .. Len(l) : l[i] \in Nat
        BY <3>1 DEF Increasing
      <4> QED BY <3>1, <4>1 DEF Increasing
    <3> QED BY <3>2 DEF l
  <2> QED BY <2>1, <2>2
<1> QED BY <1>1, <1>2

\* What has been sent is in order if what is sent and held is.
LEMMA PrefixIncreasing ==
  ASSUME NEW s \in Seq(Nat), NEW h \in Seq(Nat), NEW n, Increasing(s \o h, n)
  PROVE  Increasing(s, n)
<1> DEFINE l == s \o h
<1>1. Len(s) <= Len(l) /\ \A i \in 1 .. Len(s) : l[i] = s[i]
  BY ConcatPrefix
<1>2. Increasing(l, n)
  OBVIOUS
<1> HIDE DEF l
<1>3. Len(s) \in Nat /\ Len(l) \in Nat
  BY <1>2 DEF Increasing
<1>4. \A i \in 1 .. Len(s) : i \in 1 .. Len(l)
  BY <1>1, <1>3
<1>5. \A i \in 1 .. Len(s) : s[i] <= n
  BY <1>1, <1>2, <1>4 DEF Increasing
<1>6. \A i, j \in 1 .. Len(s) : i < j => s[i] < s[j]
  BY <1>1, <1>2, <1>4 DEF Increasing
<1> QED BY <1>5, <1>6 DEF Increasing

\* console_push() of the next number on an empty or full or other buffer.
LEMMA PushedSound ==
  ASSUME NEW lines, NEW top \in [VMs -> Nat], Sound(lines, top), NEW v \in VMs
  PROVE  Sound([lines EXCEPT ![v].held = Pushed(@, top[v] + 1)],
               [top EXCEPT ![v] = top[v] + 1])
<1> DEFINE q      == Pushed(lines[v].held, top[v] + 1)
           lines2 == [lines EXCEPT ![v].held = q]
           top2   == [top EXCEPT ![v] = top[v] + 1]
<1>1. /\ lines \in Outputs /\ lines[v].held \in Seq(Nat) /\ lines[v].sent \in Seq(Nat)
      /\ Len(lines[v].held) <= Size /\ top[v] \in Nat
      /\ Increasing(LineOf(lines, v), top[v])
  BY DEF Sound, Outputs
<1>2. q \in Seq(Nat) /\ Len(q) <= Size
  BY <1>1, SerialAssumption DEF Pushed
<1>3. Increasing(lines[v].sent \o q, top[v] + 1)
  BY <1>1, PushedIncreasing DEF LineOf
<1> HIDE DEF q
<1>4. lines2 \in Outputs /\ lines2[v].held = q /\ lines2[v].sent = lines[v].sent
  BY <1>1, <1>2 DEF Outputs
<1>5. \A w \in VMs \ {v} : lines2[w] = lines[w] /\ top2[w] = top[w]
  BY <1>1 DEF Outputs
<1>6. top2[v] = top[v] + 1
  OBVIOUS
<1>7. \A w \in VMs : Len(lines2[w].held) <= Size
  BY <1>2, <1>4, <1>5 DEF Sound
<1>8. \A w \in VMs : Increasing(LineOf(lines2, w), top2[w])
  BY <1>3, <1>4, <1>5, <1>6 DEF Sound, LineOf
<1>9. Sound(lines2, top2)
  BY <1>4, <1>7, <1>8 DEF Sound
<1> QED BY <1>9 DEF q

\* A character that goes nowhere still has its number.
LEMMA SkippedSound ==
  ASSUME NEW lines, NEW top \in [VMs -> Nat], Sound(lines, top), NEW v \in VMs
  PROVE  Sound(lines, [top EXCEPT ![v] = top[v] + 1])
BY DEF Sound, Increasing

\* console_clear() drops the end of the line.
LEMMA ClearedSound ==
  ASSUME NEW lines, NEW top, Sound(lines, top), NEW v \in VMs
  PROVE  Sound([lines EXCEPT ![v].held = <<>>], top)
<1> DEFINE lines2 == [lines EXCEPT ![v].held = <<>>]
<1>1. lines \in Outputs /\ lines[v].sent \in Seq(Nat) /\ lines[v].held \in Seq(Nat)
  BY DEF Sound, Outputs
<1> DEFINE r == [lines[v] EXCEPT !.held = <<>>]
<1>2. lines2 \in Outputs /\ lines2[v].held = <<>> /\ lines2[v].sent = lines[v].sent
  <2>1. lines2 = [lines EXCEPT ![v] = r]
    OBVIOUS
  <2> DEFINE line == lines[v].sent
  <2>2. r = [held |-> <<>>, sent |-> line] /\ line \in Seq(Nat)
    BY <1>1 DEF Outputs
  <2> HIDE DEF r, line
  <2>3. r \in [held : Seq(Nat), sent : Seq(Nat)] /\ r.held = <<>> /\ r.sent = line
    BY <2>2
  <2> HIDE DEF lines2
  <2> QED BY <1>1, <2>1, <2>3 DEF Outputs, line
<1>3. \A w \in VMs \ {v} : lines2[w] = lines[w]
  BY <1>1 DEF Outputs
<1>4. LineOf(lines2, v) = lines[v].sent
  BY <1>1, <1>2, ConcatEmptySeq DEF LineOf
<1>5. Increasing(lines[v].sent, top[v])
  BY <1>1, PrefixIncreasing DEF Sound, LineOf
<1>6. \A w \in VMs : Len(lines2[w].held) <= Size
  BY <1>2, <1>3, SerialAssumption DEF Sound
<1>7. \A w \in VMs : Increasing(LineOf(lines2, w), top[w])
  BY <1>3, <1>4, <1>5 DEF Sound, LineOf
<1> QED BY <1>2, <1>6, <1>7 DEF Sound

-----------------------------------------------------------------------------
(* The actions *)

\* IInv but for the output buffers.
Control ==
  /\ vm_connected_to_uart \in VMs
  /\ escape_char_pressed \in BOOLEAN
  /\ current \in VMs
  /\ input \in [VMs -> Seq(Typed \ {"!"})]
  /\ \A v \in VMs : Len(input[v]) <= Size
  /\ enabled \in [VMs -> BOOLEAN]
  /\ dlab \in [VMs -> BOOLEAN]
  /\ said \in [VMs -> 0 .. MaxSaid]
  /\ last \in Typed \cup {"shell"}
  /\ EscapeIsLast
  /\ vm_connected_to_uart = Shell => ~escape_char_pressed

Buffers ==
  /\ Drained
  /\ output[Shell].held = <<>>
  /\ Sound(output, said)

\* The two parts of the invariant.
LEMMA Parts == IInv <=> Control /\ Buffers
BY DEF IInv, Control, Buffers, TypeOK, Sound, Outputs

\* The two parts, after a step.
LEMMA PartsNext == Control' /\ Buffers' => IInv'
BY DEF IInv, Control, Buffers, TypeOK, Sound, Outputs

\* vm_init() makes empty buffers.
LEMMA InitInv == Init => IInv
<1> SUFFICES ASSUME Init PROVE IInv
  OBVIOUS
<1> USE SerialAssumption
<1>1. Control
  <2>1. /\ vm_connected_to_uart \in VMs /\ current \in VMs
        /\ last \in Typed \cup {"shell"}
    BY DEF Init, VMs
  <2>2. escape_char_pressed \in BOOLEAN /\ EscapeIsLast /\ ~escape_char_pressed
    BY DEF Init, EscapeIsLast
  <2>3. /\ input \in [VMs -> Seq(Typed \ {"!"})]
        /\ \A v \in VMs : Len(input[v]) <= Size
    BY DEF Init
  <2>4. enabled \in [VMs -> BOOLEAN] /\ dlab \in [VMs -> BOOLEAN]
    BY Zenon DEF Init
  <2>5. said \in [VMs -> 0 .. MaxSaid]
    BY DEF Init
  <2> QED BY <2>1, <2>2, <2>3, <2>4, <2>5 DEF Control
<1>2. Buffers
  <2> DEFINE r == [held |-> <<>>, sent |-> <<>>]
  <2>1. r \in [held : Seq(Nat), sent : Seq(Nat)] /\ r.held = <<>> /\ r.sent = <<>>
    OBVIOUS
  <2>2. output = [v \in VMs |-> r]
    BY DEF Init
  <2> HIDE DEF r
  <2>3. output \in Outputs /\ \A v \in VMs : output[v] = r
    BY <2>1, <2>2 DEF Outputs
  <2>4. Len(r.held) <= Size
    BY <2>1
  <2>5. <<>> \o <<>> = <<>>
    BY ConcatEmptySeq
  <2>6. Increasing(<<>>, 0)
    BY DEF Increasing
  <2>7. Shell \in VMs /\ vm_connected_to_uart = Shell /\ \A v \in VMs : said[v] = 0
    BY DEF Init, VMs
  <2>8. Sound(output, said)
    BY <2>1, <2>3, <2>4, <2>5, <2>6, <2>7 DEF Sound, LineOf
  <2> QED BY <2>1, <2>3, <2>7, <2>8 DEF Buffers, Drained
<1> QED BY <1>1, <1>2, Parts

\* A step that leaves the output and the connection alone.
LEMMA SameBuffers ==
  ASSUME IInv, output' = output, said' = said, vm_connected_to_uart' = vm_connected_to_uart
  PROVE  Buffers'
BY Parts DEF Buffers, Drained, Sound, Increasing, LineOf

\* An exception that does not touch the output leaves it as it is.
LEMMA UntouchedSame == ASSUME IInv PROVE Untouched = output
BY NothingToFlush DEF Untouched, IInv, TypeOK

\* When a guest writes, it finds its buffer empty if it is connected, and
\* leaves it empty.
LEMMA WriteIoInv == ASSUME IInv, WriteIo PROVE IInv' /\
  (current = vm_connected_to_uart /\ enabled[current] /\ ~dlab[current]
     => output'[current].sent = Append(output[current].sent, said'[current]))
<1> USE SerialAssumption
<1> DEFINE v == current
           n == said[v] + 1
           stored == enabled[v] /\ ~dlab[v]
           filled == [output EXCEPT ![v].held = Pushed(@, n)]
           after  == IF stored THEN filled ELSE output
<1>1. /\ v \in VMs /\ v # Shell /\ said \in [VMs -> Nat] /\ output \in Outputs
      /\ Sound(output, said) /\ output[vm_connected_to_uart].held = <<>>
      /\ vm_connected_to_uart \in VMs
  BY DEF IInv, TypeOK, Sound, WriteIo, VMs, Drained
<1>2. said' = [said EXCEPT ![v] = n] /\ said'[v] = n
  BY <1>1 DEF WriteIo
<1>3. output' = Entered(after, v, vm_connected_to_uart)
  BY <1>1, <1>2, NothingToFlush DEF WriteIo
<1>4. Control'
  <2>1. said' \in [VMs -> 0 .. MaxSaid]
    BY <1>2 DEF WriteIo, IInv, TypeOK
  <2>2. dlab' \in [VMs -> BOOLEAN]
    BY DEF WriteIo, IInv, TypeOK
  <2> QED BY <2>1, <2>2, Parts DEF WriteIo, Control, EscapeIsLast
<1>5. Sound(after, said')
  BY <1>1, <1>2, PushedSound, SkippedSound
<1>6. \A w \in VMs \ {v} : after[w] = output[w]
  BY <1>1 DEF Outputs
<1> HIDE DEF after
<1>7. Sound(output', said')
  BY <1>1, <1>3, <1>5, EnteredSound
<1>8. after \in Outputs
  BY <1>5 DEF Sound
<1>9. CASE v = vm_connected_to_uart
  <2>1. output' = Flushed(after, v)
    BY <1>3, <1>9 DEF Entered
  <2>2. output'[v].held = <<>> /\ output'[v].sent = LineOf(after, v)
    BY <1>1, <1>8, <2>1, FlushedKeeps
  <2>3. output'[Shell].held = <<>>
    <3>1. output'[Shell] = after[Shell]
      BY <1>1, <1>8, <2>1, FlushedKeeps DEF VMs
    <3> QED BY <3>1, <1>1, <1>6 DEF IInv, VMs
  <2>4. Buffers'
    BY <1>7, <1>9, <2>2, <2>3 DEF Buffers, Drained, WriteIo
  <2>5. ASSUME stored PROVE output'[v].sent = Append(output[v].sent, n)
    <3>1. output[v].held = <<>> /\ output[v].sent \in Seq(Nat) /\ n \in Nat
      BY <1>1, <1>9 DEF Outputs
    <3>2. Pushed(<<>>, n) = <<n>>
      BY <3>1 DEF Pushed
    <3>3. after[v].held = <<n>> /\ after[v].sent = output[v].sent
      BY <1>1, <2>5, <3>1, <3>2 DEF after, Outputs
    <3>4. output[v].sent \o <<n>> = Append(output[v].sent, n)
      BY <3>1, AppendIsConcat
    <3> QED BY <2>2, <3>3, <3>4 DEF LineOf
  <2> QED BY <1>2, <1>4, <2>4, <2>5, PartsNext
<1>10. CASE v # vm_connected_to_uart
  <2>1. output' = after
    BY <1>3, <1>10 DEF Entered
  <2>2. Buffers'
    BY <1>1, <1>6, <1>7, <1>10, <2>1 DEF Buffers, Drained, WriteIo, IInv, VMs
  <2> QED BY <1>4, <1>10, <2>2, PartsNext
<1> QED BY <1>9, <1>10

\* Accesses that only take from the input or set a register.
LEMMA RegistersInv ==
  ASSUME IInv, output' = Untouched,
         input' \in [VMs -> Seq(Typed \ {"!"})], \A v \in VMs : Len(input'[v]) <= Size,
         enabled' \in [VMs -> BOOLEAN], dlab' \in [VMs -> BOOLEAN],
         UNCHANGED <<vm_connected_to_uart, escape_char_pressed, current, said, last>>
  PROVE  IInv'
<1>1. Control'
  BY DEF IInv, TypeOK, Control, EscapeIsLast
<1>2. Buffers'
  BY UntouchedSame, SameBuffers
<1> QED BY <1>1, <1>2, PartsNext

\* read_aux_mu() takes a character from the input.
LEMMA ReadIoInv == ASSUME IInv, ReadIo PROVE IInv'
<1>1. CASE input' = input
  BY <1>1, RegistersInv DEF ReadIo, IInv, TypeOK
<1>2. CASE input' # input
  <2>1. input[current] # <<>> /\ input' = [input EXCEPT ![current] = Tail(@)]
    BY <1>2 DEF ReadIo
  <2>2. input[current] \in Seq(Typed \ {"!"}) /\ Len(input[current]) <= Size
    BY DEF IInv, TypeOK
  <2>3. Tail(input[current]) \in Seq(Typed \ {"!"}) /\ Len(Tail(input[current])) <= Size
    BY <2>1, <2>2, SerialAssumption
  <2>4. /\ input' \in [VMs -> Seq(Typed \ {"!"})]
        /\ \A v \in VMs : Len(input'[v]) <= Size
    BY <2>1, <2>3 DEF IInv, TypeOK
  <2> QED BY <2>4, RegistersInv DEF ReadIo, IInv, TypeOK
<1> QED BY <1>1, <1>2

\* A guest clears its input.
LEMMA ClearInputInv == ASSUME IInv, ClearInput PROVE IInv'
<1>1. /\ input' = [input EXCEPT ![current] = <<>>]
      /\ input \in [VMs -> Seq(Typed \ {"!"})]
      /\ \A v \in VMs : Len(input[v]) <= Size
  BY DEF ClearInput, IInv, TypeOK
<1>2. <<>> \in Seq(Typed \ {"!"}) /\ Len(<<>>) <= Size
  BY SerialAssumption
<1>3. /\ input' \in [VMs -> Seq(Typed \ {"!"})]
      /\ \A v \in VMs : Len(input'[v]) <= Size
  BY <1>1, <1>2
<1> QED BY <1>3, RegistersInv DEF ClearInput, IInv, TypeOK

\* A guest clears its output.
LEMMA ClearOutputInv == ASSUME IInv, ClearOutput PROVE IInv'
<1> DEFINE after == [output EXCEPT ![current].held = <<>>]
<1>1. /\ current \in VMs /\ current # Shell /\ vm_connected_to_uart \in VMs
      /\ Sound(output, said) /\ output \in Outputs
  BY SerialAssumption DEF ClearOutput, IInv, TypeOK, VMs, Sound
<1>2. output' = Entered(after, current, vm_connected_to_uart)
  BY <1>1, NothingToFlush DEF ClearOutput
<1>3. Sound(after, said)
  BY <1>1, ClearedSound
<1>4. /\ after[current].held = <<>>
      /\ \A w \in VMs \ {current} : after[w] = output[w]
  BY <1>1 DEF Outputs
<1> HIDE DEF after
<1>5. after \in Outputs
  BY <1>3 DEF Sound
<1>6. \A w \in VMs : after[w].held = <<>> => output'[w].held = <<>>
  BY <1>1, <1>2, <1>5, FlushedKeeps DEF Entered
<1>7. Sound(output', said')
  BY <1>1, <1>2, <1>3, EnteredSound DEF ClearOutput
<1>8. Buffers'
  <2>1. after[Shell].held = <<>> /\ after[vm_connected_to_uart].held = <<>>
    BY <1>1, <1>4 DEF IInv, Drained, VMs
  <2> QED BY <1>1, <1>6, <1>7, <2>1 DEF Buffers, Drained, ClearOutput, VMs
<1>9. Control'
  BY Parts DEF Control, ClearOutput, EscapeIsLast
<1> QED BY <1>8, <1>9, PartsNext

\* Whoever continues finds an empty buffer if it is the connected VM.
LEMMA SwitchInv == ASSUME IInv, NEW w \in VMs, Switch(w) PROVE IInv'
<1>1. output' = output
  BY NothingToFlush DEF Switch, IInv, TypeOK
<1>2. Buffers'
  BY <1>1, SameBuffers DEF Switch
<1>3. Control'
  BY Parts DEF Control, Switch, EscapeIsLast
<1> QED BY <1>2, <1>3, PartsNext

\* uart_handler() for a connected VM.
LEMMA UartToVmInv == ASSUME IInv, NEW ch \in Typed, UartToVm(ch) PROVE IInv'
<1>1. vm_connected_to_uart' \in {vm_connected_to_uart, Shell} /\ vm_connected_to_uart' \in VMs
  BY DEF UartToVm, IInv, TypeOK, VMs
<1>2. output' = output
  <2>1. output[vm_connected_to_uart'].held = <<>> /\ current \in VMs /\ output \in Outputs
    BY <1>1 DEF IInv, Drained, Sound, TypeOK
  <2>2. output' = Entered(output, current, vm_connected_to_uart')
    BY <2>1, NothingToFlush DEF UartToVm
  <2> QED BY <2>1, <2>2, FlushedNothing DEF Entered
<1>3. Buffers'
  <2>1. Sound(output', said')
    BY <1>2 DEF UartToVm, IInv
  <2> QED BY <1>1, <1>2, <2>1 DEF Buffers, IInv, Drained
<1>4. /\ input' \in [VMs -> Seq(Typed \ {"!"})]
      /\ \A v \in VMs : Len(input'[v]) <= Size
  <2>1. CASE input' = input
    BY <2>1 DEF IInv, TypeOK
  <2>2. CASE ch # "!" /\ input' = [input EXCEPT ![vm_connected_to_uart] = Pushed(@, ch)]
    <3>1. /\ input[vm_connected_to_uart] \in Seq(Typed \ {"!"})
          /\ Len(input[vm_connected_to_uart]) <= Size
      BY DEF IInv, TypeOK
    <3>2. /\ Pushed(input[vm_connected_to_uart], ch) \in Seq(Typed \ {"!"})
          /\ Len(Pushed(input[vm_connected_to_uart], ch)) <= Size
      BY <2>2, <3>1, SerialAssumption DEF Pushed
    <3> QED BY <2>2, <3>2 DEF IInv, TypeOK
  <2> QED BY <2>1, <2>2 DEF UartToVm
<1>5. escape_char_pressed' \in BOOLEAN /\ EscapeIsLast'
  BY DEF UartToVm, EscapeIsLast
<1>6. vm_connected_to_uart' = Shell => ~escape_char_pressed'
  <2>1. ASSUME vm_connected_to_uart' = Shell PROVE ch = "1"
    BY <2>1 DEF UartToVm
  <2> QED BY <2>1 DEF UartToVm
<1>7. Control'
  BY <1>1, <1>4, <1>5, <1>6 DEF Control, UartToVm, IInv, TypeOK
<1> QED BY <1>3, <1>7, PartsNext

\* uart_handler() for the shell.
LEMMA ShellLineInv == ASSUME IInv, ShellLine PROVE IInv'
<1>1. Buffers'
  BY UntouchedSame, SameBuffers DEF ShellLine
<1>2. EscapeIsLast' /\ ~escape_char_pressed'
  BY DEF ShellLine, IInv, EscapeIsLast
<1>3. Control'
  BY <1>2, Parts DEF Control, ShellLine
<1> QED BY <1>1, <1>3, PartsNext

\* The shell empties the buffer of the VM it connects.
LEMMA ShellEnterInv == ASSUME IInv, NEW v \in VMs, ShellEnter(v) PROVE IInv'
<1>1. /\ output \in Outputs /\ current \in VMs /\ Sound(output, said)
      /\ output[Shell].held = <<>> /\ Shell \in VMs
  BY DEF IInv, Sound, TypeOK, VMs
<1>2. output' = Entered(Flushed(output, v), current, v)
  BY <1>1, NothingToFlush DEF ShellEnter
<1>3. Flushed(output, v) \in Outputs /\ Flushed(output, v)[v].held = <<>>
  BY <1>1, FlushedKeeps
<1>4. output' = Flushed(output, v)
  BY <1>2, <1>3, FlushedNothing DEF Entered
<1>5. Sound(output', said')
  BY <1>1, <1>4, FlushedSound DEF ShellEnter
<1>6. output'[Shell].held = <<>>
  <2>1. CASE Shell = v
    BY <1>3, <1>4, <2>1
  <2>2. CASE Shell # v
    <3>1. \A w \in VMs \ {v} : Flushed(output, v)[w] = output[w]
      BY <1>1, FlushedKeeps
    <3>2. output'[Shell] = output[Shell]
      BY <1>1, <1>4, <2>2, <3>1
    <3> QED BY <1>1, <3>2
  <2> QED BY <2>1, <2>2
<1>7. Buffers'
  BY <1>3, <1>4, <1>5, <1>6 DEF Buffers, Drained, ShellEnter
<1>8. EscapeIsLast' /\ ~escape_char_pressed'
  BY DEF ShellEnter, IInv, EscapeIsLast
<1>9. Control'
  BY <1>8, Parts DEF Control, ShellEnter
<1> QED BY <1>7, <1>9, PartsNext

\* Every step keeps the invariant.
LEMMA StepInv == IInv /\ [Next]_vars => IInv'
<1> SUFFICES ASSUME IInv, [Next]_vars PROVE IInv'
  OBVIOUS
<1>1. CASE WriteIo
  BY <1>1, WriteIoInv
<1>2. CASE ReadIo \/ ClearInput \/ ClearOutput \/ ShellLine
  BY <1>2, ReadIoInv, ClearInputInv, ClearOutputInv, ShellLineInv
<1>3. CASE WriteEnables \/ WriteLcr
  BY <1>3, RegistersInv DEF WriteEnables, WriteLcr, IInv, TypeOK
<1>4. CASE \E w \in VMs : Switch(w)
  BY <1>4, SwitchInv
<1>5. CASE \E ch \in Typed : UartToVm(ch)
  BY <1>5, UartToVmInv
<1>6. CASE \E v \in VMs : ShellEnter(v)
  BY <1>6, ShellEnterInv
<1>7. CASE UNCHANGED vars
  <2>1. Control'
    BY <1>7, Parts DEF vars, Control, EscapeIsLast
  <2>2. Buffers'
    BY <1>7, SameBuffers DEF vars
  <2> QED BY <2>1, <2>2, PartsNext
<1> QED BY <1>1, <1>2, <1>3, <1>4, <1>5, <1>6, <1>7 DEF Next

-----------------------------------------------------------------------------
(* The theorems *)

\* The invariant above is inductive.
THEOREM Invariance == Spec => []IInv
<1> QED BY InitInv, StepInv, PTL DEF Spec

\* Type correctness; no console buffer outgrows its size (core/console.c:13).
THEOREM TypeCorrect == Spec => []TypeOK
<1>1. IInv => TypeOK
  BY DEF IInv
<1> QED BY <1>1, Invariance, PTL

\* Nothing waits in the buffer of the connected VM while a guest runs
\* (shell.c:119, vcpu.c:355, vcpu.c:367).
THEOREM AlwaysDrained == Spec => []Drained
<1>1. IInv => Drained
  BY DEF IInv
<1> QED BY <1>1, Invariance, PTL

\* The escape flag of uart_handler() does not outlive a connection.
THEOREM EscapeSafe == Spec => []EscapeIsLast
<1>1. IInv => EscapeIsLast
  BY DEF IInv
<1> QED BY <1>1, Invariance, PTL

\* The output of a VM reaches the line in order and without repetition.
THEOREM OutputInOrder == Spec => []InOrder
<1>1. IInv => InOrder
  BY DEF IInv, Sound, Increasing, InOrder, Line, LineOf
<1> QED BY <1>1, Invariance, PTL

\* A connected VM's character is on the line before its next instruction.
THEOREM OutputImmediate == Spec => Immediate
<1>1. IInv /\ [Next]_vars =>
        [(WriteIo /\ current = vm_connected_to_uart /\ enabled[current] /\ ~dlab[current])
          => output'[current].sent = Append(output[current].sent, said'[current])]_vars
  BY WriteIoInv
<1> QED BY <1>1, Invariance, PTL DEF Spec, Immediate

-----------------------------------------------------------------------------
(* The console buffer on its own: for every number of places and every set *)
(* of characters the ring of Console implements the queue Fifo that Serial *)
(* takes it for.  The inductive invariant ties the write index to the read *)
(* index and the count; without it a push could overwrite the oldest one.  *)

RingInv == ConsoleTypeOK /\ IndexInv

\* The places of the characters are places of the buffer, each once.
LEMMA PlaceType ==
  ASSUME begin \in Places, NEW i \in 0 .. Room
  PROVE  /\ Place(i) \in Places
         /\ i < Room => After(Place(i)) = Place(i + 1)
         /\ \A j \in 0 .. Room - 1 : i < Room /\ Place(i) = Place(j) => i = j
  BY RoomAssumption DEF Places, Place, After

\* What lies between the indices is a sequence of as many characters as are counted.
LEMMA ContentsType ==
  ASSUME ConsoleTypeOK PROVE Contents \in Seq(Char) /\ Len(Contents) = used
<1>1. \A i \in 1 .. used : buffer[Place(i - 1)] \in Char
  BY RoomAssumption, PlaceType DEF ConsoleTypeOK
<1>2. used \in Nat BY RoomAssumption DEF ConsoleTypeOK
<1> QED BY <1>1, <1>2 DEF Contents

\* vm_init() makes an empty ring, the empty queue.
LEMMA RingInit == ASSUME ConsoleInit PROVE RingInv /\ Q!Init
<1> USE RoomAssumption DEF ConsoleInit
<1>1. ConsoleTypeOK BY DEF ConsoleTypeOK, Places
<1>2. IndexInv BY DEF IndexInv, Place
<1>3. Q!Init BY DEF Q!Init, Contents
<1> QED BY <1>1, <1>2, <1>3 DEF RingInv

\* Storing at the write index appends to the contents.
LEMMA PushStep ==
  ASSUME RingInv, NEW c \in Char, console_push(c) PROVE RingInv' /\ Q!Push(c)
<1>0. ConsoleTypeOK /\ IndexInv BY DEF RingInv
<1>1. CASE console_full
  <2>1. UNCHANGED <<buffer, begin, end, used>> /\ out' = <<>>
    BY <1>1 DEF console_push
  <2>2. Contents' = Contents BY <2>1 DEF Contents, Place
  <2>3. Q!Push(c) BY <1>0, <1>1, <2>1, <2>2, ContentsType DEF Q!Push, console_full
  <2> QED BY <1>0, <2>1, <2>3 DEF RingInv, ConsoleTypeOK, IndexInv, Place
<1>2. CASE ~console_full
  <2>1. /\ buffer' = [buffer EXCEPT ![end] = c]
        /\ end' = After(end) /\ used' = used + 1 /\ out' = <<>> /\ begin' = begin
    BY <1>2 DEF console_push
  <2>2. used \in 0 .. Room - 1 BY <1>0, <1>2, RoomAssumption DEF ConsoleTypeOK, console_full
  <2>3. ConsoleTypeOK' BY <1>0, <2>1, <2>2, RoomAssumption DEF ConsoleTypeOK, After, Places
  <2>4. IndexInv'
    BY <1>0, <2>1, <2>2, RoomAssumption DEF IndexInv, ConsoleTypeOK, Place, After, Places
  <2>5. \A i \in 1 .. used : buffer'[Place(i - 1)] = buffer[Place(i - 1)]
    <3> SUFFICES ASSUME NEW i \in 1 .. used PROVE Place(i - 1) # end
      BY <1>0, <2>1 DEF ConsoleTypeOK
    <3>1. Place(i - 1) # Place(used)
      BY <1>0, <2>2, PlaceType, RoomAssumption DEF ConsoleTypeOK
    <3> QED BY <3>1, <1>0 DEF IndexInv
  <2>6. buffer'[Place(used)] = c BY <1>0, <2>1 DEF IndexInv, ConsoleTypeOK
  <2>7. Contents' = [i \in 1 .. used + 1 |-> buffer'[Place(i - 1)]]
    BY <2>1 DEF Contents, Place
  <2>8. Contents' = Append(Contents, c)
    <3>1. Contents \in Seq(Char) /\ Len(Contents) = used BY <1>0, ContentsType
    <3>2. Contents' \in Seq(Char) /\ Len(Contents') = used + 1
      <4>1. \A i \in 1 .. used + 1 : buffer'[Place(i - 1)] \in Char
        BY <1>0, <2>2, <2>3, PlaceType, RoomAssumption DEF ConsoleTypeOK
      <4> QED BY <4>1, <2>2, <2>7
    <3>3. Append(Contents, c) \in Seq(Char) /\ Len(Append(Contents, c)) = used + 1
      BY <3>1
    <3>4. \A i \in 1 .. used + 1 : Contents'[i] = Append(Contents, c)[i]
      <4> SUFFICES ASSUME NEW i \in 1 .. used + 1
                   PROVE  Contents'[i] = Append(Contents, c)[i]
        OBVIOUS
      <4>1. CASE i = used + 1 BY <3>1, <4>1, <2>2, <2>6, <2>7
      <4>2. CASE i # used + 1
        <5>1. i \in 1 .. used BY <4>2, <2>2
        <5>2. Contents[i] = buffer[Place(i - 1)] BY <5>1 DEF Contents
        <5> QED BY <3>1, <5>1, <5>2, <2>2, <2>5, <2>7
      <4> QED BY <4>1, <4>2
    <3> QED BY <3>2, <3>3, <3>4, SeqEqual
  <2>9. Q!Push(c)
    BY <1>0, <2>1, <2>2, <2>8, ContentsType, RoomAssumption DEF Q!Push
  <2> QED BY <2>3, <2>4, <2>9 DEF RingInv
<1> QED BY <1>1, <1>2

\* Reading at the read index takes the head of the contents.
LEMMA PopStep ==
  ASSUME RingInv, console_pop PROVE RingInv' /\ Q!Pop
<1> USE RoomAssumption
<1>0. ConsoleTypeOK /\ IndexInv BY DEF RingInv
<1>1. CASE console_empty
  <2>1. UNCHANGED <<buffer, begin, end, used>> /\ out' = <<>>
    BY <1>1 DEF console_pop
  <2>2. Contents' = Contents /\ Contents = <<>>
    BY <1>1, <2>1 DEF Contents, Place, console_empty
  <2> QED BY <1>0, <2>1, <2>2 DEF RingInv, ConsoleTypeOK, IndexInv, Place, Q!Pop
<1>2. CASE ~console_empty
  <2>1. /\ out' = <<buffer[begin]>> /\ begin' = After(begin)
        /\ used' = used - 1 /\ UNCHANGED <<buffer, end>>
    BY <1>2 DEF console_pop
  <2>2. used \in 1 .. Room BY <1>0, <1>2 DEF ConsoleTypeOK, console_empty
  <2>3. ConsoleTypeOK'
    BY <1>0, <2>1, <2>2 DEF ConsoleTypeOK, After, Places
  <2>4. IndexInv'
    BY <1>0, <2>1, <2>2 DEF IndexInv, ConsoleTypeOK, Place, After, Places
  <2>5. Contents \in Seq(Char) /\ Len(Contents) = used BY <1>0, ContentsType
  <2>6. Contents # <<>> BY <2>2, <2>5
  <2>7. Head(Contents) = buffer[begin]
    <3>1. Contents[1] = buffer[Place(0)] BY <2>2 DEF Contents
    <3>2. Place(0) = begin BY <1>0 DEF Place, ConsoleTypeOK, Places
    <3> QED BY <3>1, <3>2, <2>5, <2>6
  <2>8. Contents' = Tail(Contents)
    <3>1. \A i \in 1 .. used - 1 : buffer[Place(i)] \in Char
      BY <1>0, <2>2, PlaceType DEF ConsoleTypeOK
    <3>2. \A i \in 1 .. used - 1 : Place(i - 1)' = Place(i)
      BY <1>0, <2>1, <2>2 DEF Place, After, ConsoleTypeOK, Places
    <3>3. Contents' = [i \in 1 .. used - 1 |-> buffer[Place(i)]]
      BY <2>1, <3>2 DEF Contents
    <3>4. Contents' \in Seq(Char) /\ Len(Contents') = used - 1
      BY <3>1, <3>3, <2>2
    <3>5. Tail(Contents) \in Seq(Char) /\ Len(Tail(Contents)) = used - 1
      BY <2>5, <2>6, <2>2
    <3>6. \A i \in 1 .. used - 1 : Contents'[i] = Tail(Contents)[i]
      <4> SUFFICES ASSUME NEW i \in 1 .. used - 1
                   PROVE  Contents'[i] = Tail(Contents)[i]
        OBVIOUS
      <4>1. Tail(Contents)[i] = Contents[i + 1] BY <2>2, <2>5, <2>6
      <4>2. Contents[i + 1] = buffer[Place(i)]
        <5>1. i + 1 \in 1 .. used /\ (i + 1) - 1 = i BY <2>2
        <5> QED BY <5>1 DEF Contents
      <4> QED BY <4>1, <4>2, <3>3
    <3> QED BY <3>4, <3>5, <3>6, SeqEqual
  <2>9. Q!Pop BY <2>1, <2>6, <2>7, <2>8 DEF Q!Pop
  <2> QED BY <2>3, <2>4, <2>9 DEF RingInv
<1> QED BY <1>1, <1>2

\* console_clear() empties both.
LEMMA ClearStep ==
  ASSUME RingInv, console_clear PROVE RingInv' /\ Q!Clear
<1> USE RoomAssumption DEF console_clear
<1>1. ConsoleTypeOK' BY DEF RingInv, ConsoleTypeOK, Places
<1>2. IndexInv' BY DEF IndexInv, Place
<1>3. Q!Clear BY DEF Q!Clear, Contents
<1> QED BY <1>1, <1>2, <1>3 DEF RingInv

\* Popping until the buffer is empty hands out the contents in order.
LEMMA FlushStep ==
  ASSUME RingInv, console_flush PROVE RingInv' /\ Q!Flush
<1> USE RoomAssumption DEF console_flush
<1>0. ConsoleTypeOK /\ IndexInv BY DEF RingInv
<1>1. Contents \in Seq(Char) BY <1>0, ContentsType
<1>2. Place(used) \in Places BY <1>0, PlaceType DEF ConsoleTypeOK
<1>3. ConsoleTypeOK' BY <1>0, <1>1, <1>2 DEF ConsoleTypeOK
<1>4. IndexInv' BY <1>0, <1>2 DEF IndexInv, Place, Places
<1>5. Q!Flush BY DEF Q!Flush, Contents
<1> QED BY <1>3, <1>4, <1>5 DEF RingInv

\* Every operation keeps the invariant and is one of the queue, or none.
LEMMA RingNext == ASSUME RingInv, [ConsoleNext]_consoleVars PROVE RingInv' /\ [Q!Next]_(Q!vars)
<1>1. ASSUME NEW c \in Char, console_push(c) PROVE RingInv' /\ Q!Next
  BY <1>1, PushStep DEF Q!Next
<1>2. CASE console_pop BY <1>2, PopStep DEF Q!Next
<1>3. CASE console_clear BY <1>3, ClearStep DEF Q!Next
<1>4. CASE console_flush BY <1>4, FlushStep DEF Q!Next
<1>5. CASE UNCHANGED consoleVars
  <2>1. RingInv' BY <1>5 DEF consoleVars, RingInv, ConsoleTypeOK, IndexInv, Place
  <2>2. UNCHANGED Q!vars BY <1>5 DEF consoleVars, Q!vars, Contents, Place
  <2> QED BY <2>1, <2>2
<1> QED BY <1>1, <1>2, <1>3, <1>4, <1>5 DEF ConsoleNext

\* The indices stay inside the array and the count below its size, and only
\* characters are handed out, whatever the order of the operations
\* (console.c:12-52).
THEOREM RingTyped == ConsoleSpec => []ConsoleTypeOK
  BY RingInit, RingNext, PTL DEF ConsoleSpec, RingInv

\* The three indices stay in step whatever the order of the operations
\* (console.c:12-42).
THEOREM IndicesAgree == ConsoleSpec => [](ConsoleTypeOK /\ IndexInv)
  BY RingInit, RingNext, PTL DEF ConsoleSpec, RingInv

\* Characters come out in the order they went in, each once, and only what
\* is pushed into a full buffer is lost (console.c:12-52).
THEOREM RingIsFifo == ConsoleSpec => IsFifo
  BY RingInit, RingNext, PTL DEF ConsoleSpec, IsFifo, Q!Spec
=============================================================================
