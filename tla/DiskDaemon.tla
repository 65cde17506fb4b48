----------------------------- MODULE DiskDaemon -----------------------------
(***************************************************************************)
(* The program on the host that is the disk of the stage 9 kernel          *)
(* (src/xinu-hw9/device/disk/xinu-disk.c): it finds the disk driver on the *)
(* other end of a serial line and then serves its requests, line by line.  *)
(*                                                                         *)
(* The driver is only in a binary archive.  It asks until it is            *)
(* acknowledged, makes one request at a time, compares checksums, and may  *)
(* be restarted with the kernel at any moment.  The line can damage one    *)
(* character of a block on its way to the daemon.                          *)
(***************************************************************************)
EXTENDS DiskCodec, Sequences, FiniteSets

CONSTANTS BLOCKNUM, BLOCKSIZE,  \* 256 and 256 in the source
          MAXTRIES,             \* lines the daemon waits for the driver, 10 in the source
          Contents,             \* what the driver writes into a block
          Damage,               \* characters the line puts in the place of others
          MaxNoise,             \* bound: lines that come before the driver
          MaxWrites,            \* bound: blocks written
          MaxRestarts,          \* bound: restarts of the driver
          MaxErrors             \* bound: damaged characters

ASSUME DaemonAssumption ==
    /\ BLOCKNUM \in 1 .. 256 /\ BLOCKSIZE \in Nat \ {0} /\ MAXTRIES \in Nat \ {0}
    /\ Contents \subseteq [1 .. BLOCKSIZE -> Bytes]
    /\ Damage \subseteq (0 .. 127) \ {10}          \* a newline would end the line
    /\ {MaxNoise, MaxWrites, MaxRestarts, MaxErrors} \subseteq Nat

VARIABLES pc, tries, block,     \* the daemon: where it is, tries, the block to write
          datafile,             \* the disk file
          infile, outfile,      \* the lines on their way to the daemon and back
          ending,               \* how the line ends a line
          driver,               \* what the driver waits for
          sent,                 \* what it has written
          risk,                 \* blocks whose write was cut or came back with a wrong checksum
          noise, writes, restarts, errors

daemon == <<pc, tries, block, datafile>>
counts == <<noise, writes, restarts, errors>>
vars   == <<daemon, infile, outfile, ending, driver, sent, risk, counts>>

Blocks  == 0 .. BLOCKNUM - 1
Line(text, b, hex) == [text |-> text, block |-> b, hex |-> hex]
Zeroes  == [i \in 1 .. BLOCKSIZE |-> 0]
Driver(state, b) == [state |-> state, block |-> b]

Init == /\ pc = "banner" /\ tries = 0 /\ block = 0
        /\ datafile = [b \in Blocks |-> Zeroes] /\ sent = datafile
        /\ infile = <<>> /\ outfile = <<>>
        /\ ending \in {"crlf", "lf"}
        /\ driver = Driver("asking", 0)
        /\ risk = {} /\ noise = 0 /\ writes = 0 /\ restarts = 0 /\ errors = 0

-----------------------------------------------------------------------------
(* Blocks as text.                                                         *)

Hex(bytes) == [k \in 1 .. 2 * BLOCKSIZE |-> encode(bytes[(k + 1) \div 2])[2 - (k % 2)]]
Unhex(hex) == [i \in 1 .. BLOCKSIZE |-> decode(<<hex[2 * i - 1], hex[2 * i]>>)]

\* The exclusive or of the bytes, bit by bit: the parity of the bytes that have
\* the bit of weight w set.
Weights == {1, 2, 4, 8, 16, 32, 64, 128}
Bit(b, w) == ((b % 256) \div w) % 2
chksum(bytes) == [w \in Weights |-> Cardinality({i \in 1 .. BLOCKSIZE : Bit(bytes[i], w) = 1}) % 2]

-----------------------------------------------------------------------------
(* The daemon.                                                             *)

\* The four forms of the question differ in how the line ends.
Question(line) == line.text = "question"

Banner == /\ pc = "banner" /\ pc' = "listen"
          /\ outfile' = Append(outfile, Line("banner", 0, <<>>))
          /\ UNCHANGED <<tries, block, datafile, infile, ending, driver, sent, risk, counts>>

Listen ==
    /\ pc = "listen" /\ infile # <<>>
    /\ infile' = Tail(infile)
    /\ IF Question(Head(infile)) THEN pc' = "ack" /\ UNCHANGED tries
       ELSE tries' = tries + 1 /\ pc' = IF tries' < MAXTRIES THEN "banner" ELSE "gone"
    /\ UNCHANGED <<block, datafile, outfile, ending, driver, sent, risk, counts>>

Acknowledge ==
    /\ pc = "ack" /\ pc' = "serve"
    /\ outfile' = Append(outfile, Line("ack", 0, <<>>))
    /\ UNCHANGED <<tries, block, datafile, infile, ending, driver, sent, risk, counts>>

\* Faulty: in the loop the driver's question is not known.
Serve_NoQuestion ==
    /\ pc = "serve" /\ infile # <<>> /\ infile' = Tail(infile)
    /\ LET line == Head(infile) IN
       /\ pc' = IF line.text = "W" THEN "body" ELSE "serve"
       /\ block' = IF line.text = "W" THEN line.block ELSE block
       /\ outfile' = IF line.text # "R" THEN outfile
            ELSE Append(outfile, Line("data", chksum(datafile[line.block]), Hex(datafile[line.block])))
    /\ UNCHANGED <<tries, datafile, ending, driver, sent, risk, counts>>

\* A line is a request, the question in its first form, or it is dropped.
Serve ==
    /\ pc = "serve" /\ infile # <<>> /\ infile' = Tail(infile)
    /\ LET line == Head(infile) IN
       /\ pc' = IF line.text = "W" THEN "body" ELSE "serve"
       /\ block' = IF line.text = "W" THEN line.block ELSE block
       /\ outfile' = CASE line.text = "R" ->
                            Append(outfile, Line("data", chksum(datafile[line.block]),
                                                 Hex(datafile[line.block])))
                       [] Question(line) /\ ending = "crlf" -> Append(outfile, Line("ack", 0, <<>>))
                       [] OTHER -> outfile
    /\ UNCHANGED <<tries, datafile, ending, driver, sent, risk, counts>>

\* Whatever comes next is the block, up to the end of the line: the end itself
\* is left for Serve.  A line that is too short leaves the rest of the buffer as
\* it was.
writeBlockRequest ==
    /\ pc = "body" /\ infile # <<>> /\ pc' = "serve"
    /\ \E bytes \in IF Head(infile).text = "hex" THEN {Unhex(Head(infile).hex)}
                    ELSE Contents \cup {Zeroes} :
           /\ datafile' = [datafile EXCEPT ![block] = bytes]
           /\ outfile' = Append(outfile, Line("sum", chksum(bytes), <<>>))
    /\ infile' = IF Head(infile).text = "hex" THEN <<Line("end", 0, <<>>)>> \o Tail(infile)
                 ELSE Tail(infile)
    /\ UNCHANGED <<tries, block, ending, driver, sent, risk, counts>>

Daemon == Banner \/ Listen \/ Acknowledge \/ Serve \/ writeBlockRequest

-----------------------------------------------------------------------------
(* The driver and the line.                                                *)

Send(line) == infile' = Append(infile, line)
Quiet      == infile = <<>> /\ outfile = <<>> /\ pc \in {"listen", "serve", "body"}

Noise == /\ noise < MaxNoise /\ noise' = noise + 1
         /\ pc = "listen" /\ infile = <<>> /\ Send(Line("noise", 0, <<>>))
         /\ UNCHANGED <<daemon, outfile, ending, driver, sent, risk, writes, restarts, errors>>

\* Nothing has come for a while: the driver asks, or asks again.
Ask == /\ driver.state = "asking" /\ Quiet /\ Send(Line("question", 0, <<>>))
       /\ UNCHANGED <<daemon, outfile, ending, driver, sent, risk, counts>>

Read == /\ driver.state = "ready" /\ Quiet
        /\ \E b \in Blocks : Send(Line("R", b, <<>>)) /\ driver' = Driver("reading", b)
        /\ UNCHANGED <<daemon, outfile, ending, sent, risk, counts>>

Write == /\ driver.state = "ready" /\ Quiet /\ writes < MaxWrites /\ writes' = writes + 1
         /\ \E b \in Blocks : Send(Line("W", b, <<>>)) /\ driver' = Driver("writing", b)
         /\ UNCHANGED <<daemon, outfile, ending, sent, risk, noise, restarts, errors>>

WriteBody ==
    LET b == driver.block IN
    /\ driver.state = "writing" /\ driver' = Driver("written", b)
    /\ \E bytes \in Contents :
        /\ sent' = [sent EXCEPT ![b] = bytes]
        /\ \/ Send(Line("hex", 0, Hex(bytes))) /\ UNCHANGED errors
           \/ /\ errors < MaxErrors /\ errors' = errors + 1
              /\ \E i \in 1 .. 2 * BLOCKSIZE, c \in Damage :
                     Send(Line("hex", 0, [Hex(bytes) EXCEPT ![i] = c]))
    /\ risk' = risk \ {b}
    /\ UNCHANGED <<daemon, outfile, ending, noise, writes, restarts>>

\* While it asks the driver drops all that is not an acknowledgement.
Receive ==
    LET line == Head(outfile) IN
    /\ outfile # <<>> /\ outfile' = Tail(outfile)
    /\ CASE driver.state = "asking" ->
              /\ driver' = IF line.text = "ack" THEN Driver("ready", 0) ELSE driver
              /\ UNCHANGED risk
         [] driver.state = "written" ->
              /\ driver' = Driver("ready", 0)
              /\ risk' = IF line.block = chksum(sent[driver.block]) THEN risk
                         ELSE risk \cup {driver.block}
         [] OTHER -> driver' = Driver("ready", 0) /\ UNCHANGED risk
    /\ UNCHANGED <<daemon, infile, ending, sent, counts>>

\* A write that is under way is cut, or its checksum is never seen.
Restart ==
    /\ restarts < MaxRestarts /\ restarts' = restarts + 1
    /\ driver.state # "asking" /\ driver' = Driver("asking", 0)
    /\ risk' = IF driver.state \in {"writing", "written"} THEN risk \cup {driver.block} ELSE risk
    /\ UNCHANGED <<daemon, infile, outfile, ending, sent, noise, writes, errors>>

Next == Daemon \/ Noise \/ Ask \/ Read \/ Write \/ WriteBody \/ Receive \/ Restart
Spec == Init /\ [][Next]_vars

\* The daemon and the line go on, and a driver that has no answer asks again.
Fairness == WF_vars(Daemon) /\ WF_vars(Ask) /\ WF_vars(Receive) /\ WF_vars(WriteBody)
FairSpec == Spec /\ Fairness

-----------------------------------------------------------------------------
\* The disk keeps what the driver wrote and gives it back: only a block whose
\* write was cut by a restart, or of which the driver was told a wrong checksum,
\* can hold anything else, however bytes are signed and whatever line is taken
\* for another (readBlockRequest(), writeBlockRequest(), diskServer()).
DataKept ==
    \A b \in Blocks \ risk :
        /\ pc = "serve" /\ infile = <<>> /\ driver.state = "ready" => datafile[b] = sent[b]
        /\ driver = Driver("reading", b) /\ outfile # <<>> =>
               /\ Unhex(Head(outfile).hex) = sent[b]
               /\ Head(outfile).block = chksum(sent[b])

\* A driver that asks is acknowledged, also after a restart in the middle of a
\* request, when its first question is taken for the block; unless the daemon
\* has given up, or the line ends lines in the way only the first contact knows.
Reconnects ==
    driver.state = "asking" /\ (ending = "crlf" \/ restarts = 0) ~>
        driver.state # "asking" \/ pc = "gone" \/ (ending = "lf" /\ restarts > 0)
=============================================================================
