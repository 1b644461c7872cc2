------------------------------ MODULE Console ------------------------------
(***************************************************************************)
(* The socket console's input (emu/console.c): keys typed at a telnet      *)
(* client, encoded on the wire, arriving in pieces, and read by the guest  *)
(* a key at a time (CBREAK or RAW) or a cooked line at a time.  A read is  *)
(* a sequence of receives, each of which may block.                        *)
(*                                                                         *)
(* Bytes are named for what the decoder does with them.  0xff is IAC, the  *)
(* telnet escape, also when it is data.  Echo is left out.                 *)
(***************************************************************************)
EXTENDS Naturals, Sequences, SequencesExt

CONSTANTS
  Keys,       \* what is typed in each tty mode: part of Encodings' domain
  Switches,   \* TRUE if the tty mode changes with keys on their way
  Split,      \* tty modes in which the network may cut a key in two
  MaxRead,    \* bound: bytes asked for by one read
  MaxKeys     \* bound: keys typed

Modes == {"raw", "cooked"}
None == "none"
EOF == "eof"

(* RETURN is CR LF or CR NUL (RFC 854), the data byte 0xff is doubled, and *)
(* the client may negotiate an option at any time.  "CR" is a client that  *)
(* sends a carriage return alone.                                          *)
Encodings ==
  [k \in {"a", "RETURN", "CR", "FF", "BS", "EOT", "WILL", "SB"} |->
     CASE k = "RETURN" -> {<<"CR", "LF">>, <<"CR", "NUL">>}
       [] k = "FF" -> {<<"IAC", "IAC">>}
       [] k = "WILL" -> {<<"IAC", "WILL", "opt">>}
       [] k = "SB" -> {<<"IAC", "SB", "opt", "IAC", "SE">>}
       [] OTHER -> {<<k>>}]

ASSUME ConsoleAssumption ==
  /\ Keys \in [Modes -> SUBSET DOMAIN Encodings]
  /\ Switches \in BOOLEAN /\ Split \subseteq Modes
  /\ MaxRead \in Nat \ {0} /\ MaxKeys \in Nat

VARIABLES
  typed,      \* the keys typed so far
  wire,       \* encodings on their way
  closed,     \* the client has hung up
  sock,       \* bytes that have arrived
  con_pushback, con_eof, con_line,   \* con_line: the unread rest of a line
  tty,        \* the tty mode
  rd,         \* the read in progress
  promised,   \* FIONREAD has just reported input
  delivered   \* the bytes the guest has read

conVars == <<typed, wire, closed, sock, con_pushback, con_eof, con_line, tty,
             rd, promised, delivered>>

(* A read is at its next key, at the byte paired with a CR, or, cooking, at*)
(* the next byte of the line or the byte paired with its CR; iac is how    *)
(* far con_in_byte is into a telnet command.                               *)
Idle == [at |-> "idle", iac |-> "data", got |-> <<>>, max |-> 1]
Byte == {"a", "CR", "LF", "NUL", "BS", "EOT", "IAC", "WILL", "SB", "SE", "opt"}

ConTypeOK ==
  /\ typed \in Seq(UNION Range(Keys)) /\ Len(typed) <= MaxKeys
  /\ wire \in Seq(Seq(Byte)) /\ sock \in Seq(Byte) /\ con_line \in Seq(Byte)
  /\ {closed, con_eof, promised} \subseteq BOOLEAN
  /\ con_pushback \in (Byte \ {"LF", "NUL"}) \cup {None}
  /\ tty \in Modes
  /\ rd.at \in {"idle", "key", "pair", "cook", "cookpair"}
  /\ rd.iac \in {"data", "iac", "opt", "sb", "sbiac"}
  /\ rd.got \in Seq(Byte) /\ rd.max \in 1 .. MaxRead
  /\ rd.at \in {"key", "pair"} => Len(rd.got) <= rd.max
  /\ delivered \in Seq(Byte)

ConInit ==
  /\ typed = <<>> /\ wire = <<>> /\ sock = <<>> /\ con_line = <<>>
  /\ closed = FALSE /\ con_eof = FALSE /\ promised = FALSE
  /\ con_pushback = None
  /\ tty \in Modes
  /\ rd = Idle
  /\ delivered = <<>>

(***************************************************************************)
(* The client and the network                                              *)
(***************************************************************************)
Type ==
  /\ ~closed /\ Len(typed) < MaxKeys
  /\ \E k \in Keys[tty] : \E code \in Encodings[k] :
       typed' = Append(typed, k) /\ wire' = Append(wire, code)
  /\ UNCHANGED <<closed, sock, con_pushback, con_eof, con_line, tty, rd,
                 promised, delivered>>

HangUp ==
  /\ closed' = TRUE
  /\ UNCHANGED <<typed, wire, sock, con_pushback, con_eof, con_line, tty, rd,
                 promised, delivered>>

Arrive ==
  /\ wire # <<>>
  /\ \E n \in 1 .. Len(Head(wire)) :
       /\ tty \notin Split => n = Len(Head(wire))
       /\ sock' = sock \o SubSeq(Head(wire), 1, n)
       /\ wire' = (IF n = Len(Head(wire)) THEN <<>>
                   ELSE <<SubSeq(Head(wire), n + 1, Len(Head(wire)))>>) \o Tail(wire)
  /\ UNCHANGED <<typed, closed, con_pushback, con_eof, con_line, tty, rd,
                 promised, delivered>>

(***************************************************************************)
(* con_recv_raw and con_in_byte                                            *)
(***************************************************************************)

(* con_input_avail for a given state of the buffers.                       *)
Available(pb, sk, eof) ==
  LET held == (IF pb # None THEN 1 ELSE 0) + Len(con_line) IN
  IF eof THEN (IF held = 0 THEN 1 ELSE held) ELSE held + Len(sk)

(* Mutated forms end in _mut: here the end of the input is not reported.   *)
CanReceive_mut == con_pushback # None \/ sock # <<>>

CanReceive == con_pushback # None \/ sock # <<>> \/ (closed /\ wire = <<>>)

(* One raw byte: the pushed-back one, the next that arrived, or the end.   *)
Received ==
  IF con_pushback # None THEN con_pushback
  ELSE IF sock # <<>> THEN Head(sock) ELSE EOF

sockAfter == IF con_pushback = None /\ sock # <<>> THEN Tail(sock) ELSE sock
eofAfter == con_eof \/ Received = EOF

(* What con_in_byte makes of it: the byte it returns, or None if it goes   *)
(* on, and where in a command it is then.                                  *)
Decode_mut(iac, b) ==
  CASE iac = "data" -> IF b = "IAC" THEN <<None, "iac">> ELSE <<b, "data">>
    [] iac = "iac" -> CASE b \in {EOF, "IAC"} -> <<b, "data">>
                        [] b = "WILL" -> <<None, "data">>
                        [] b = "SB" -> <<None, "sb">>
                        [] OTHER -> <<None, "data">>
    [] iac = "opt" -> <<None, "data">>
    [] iac = "sb" -> CASE b = EOF -> <<EOF, "data">>
                       [] b = "IAC" -> <<None, "sbiac">>
                       [] OTHER -> <<None, "sb">>
    [] iac = "sbiac" -> CASE b = EOF -> <<EOF, "data">>
                          [] b = "SE" -> <<None, "data">>
                          [] OTHER -> <<None, "sb">>

Decode(iac, b) ==
  CASE iac = "data" -> IF b = "IAC" THEN <<None, "iac">> ELSE <<b, "data">>
    [] iac = "iac" -> CASE b \in {EOF, "IAC"} -> <<b, "data">>
                        [] b = "WILL" -> <<None, "opt">>
                        [] b = "SB" -> <<None, "sb">>
                        [] OTHER -> <<None, "data">>
    [] iac = "opt" -> <<None, "data">>
    [] iac = "sb" -> CASE b = EOF -> <<EOF, "data">>
                       [] b = "IAC" -> <<None, "sbiac">>
                       [] OTHER -> <<None, "sb">>
    [] iac = "sbiac" -> CASE b = EOF -> <<EOF, "data">>
                          [] b = "SE" -> <<None, "data">>
                          [] OTHER -> <<None, "sb">>

(* The read receives a byte and con_in_byte returns b for it.              *)
InByte(at, b) ==
  /\ rd.at = at
  /\ CanReceive
  /\ b = Decode(rd.iac, Received)[1]
  /\ sock' = sockAfter /\ con_eof' = eofAfter
  /\ UNCHANGED <<typed, wire, closed, tty>>

(* ... or goes on for another one.                                         *)
Swallow ==
  /\ rd.at # "idle"
  /\ InByte(rd.at, None)
  /\ rd' = [rd EXCEPT !.iac = Decode(rd.iac, Received)[2]]
  /\ con_pushback' = None
  /\ UNCHANGED <<con_line, promised, delivered>>

ReadReturns(bytes) ==
  /\ rd' = Idle
  /\ delivered' = delivered \o bytes
  /\ promised' = FALSE

(***************************************************************************)
(* Reading keys: con_read_raw and con_in_key                               *)
(***************************************************************************)

NextKey_mut(got, pb) ==
  IF Len(got) < rd.max
    THEN /\ rd' = [rd EXCEPT !.at = "key", !.iac = "data", !.got = got]
         /\ UNCHANGED <<delivered, promised>>
    ELSE ReadReturns(got)

(* The key is complete: con_read_raw drains what is already waiting.       *)
NextKey(got, pb) ==
  IF Len(got) < rd.max /\ Available(pb, sockAfter, eofAfter) # 0
    THEN /\ rd' = [rd EXCEPT !.at = "key", !.iac = "data", !.got = got]
         /\ UNCHANGED <<delivered, promised>>
    ELSE ReadReturns(got)

(* con_input_ready, once the CR itself has been taken.                     *)
PairFollows == Available(None, sockAfter, eofAfter) # 0

ReadKey ==
  /\ \E b \in Byte \cup {EOF} :
       /\ InByte("key", b)
       /\ IF b = EOF THEN ReadReturns(rd.got)
          ELSE IF b = "CR" /\ PairFollows
            THEN /\ rd' = [rd EXCEPT !.at = "pair", !.iac = "data",
                                     !.got = Append(@, b)]
                 /\ UNCHANGED <<delivered, promised>>
            ELSE NextKey(Append(rd.got, b), None)
  /\ con_pushback' = None
  /\ UNCHANGED con_line

(* The LF or NUL of a RETURN is absorbed, another byte is pushed back.     *)
Pushed(b) == IF b \in {EOF, "LF", "NUL"} THEN None ELSE b

ReadPair ==
  /\ \E b \in Byte \cup {EOF} :
       /\ InByte("pair", b)
       /\ con_pushback' = Pushed(b)
       /\ NextKey(rd.got, Pushed(b))
  /\ UNCHANGED con_line

(***************************************************************************)
(* Reading a line: con_sock_read and con_cook_line                         *)
(***************************************************************************)

(* The line is complete; one read takes the first max bytes of it.         *)
LineRead(line) ==
  /\ ReadReturns(SubSeq(line, 1, IF Len(line) < rd.max THEN Len(line) ELSE rd.max))
  /\ con_line' = SubSeq(line, rd.max + 1, Len(line))

Erase(line) == IF line = <<>> THEN line ELSE Front(line)

CookByte ==
  /\ \E b \in Byte \cup {EOF} :
       /\ InByte("cook", b)
       /\ CASE b \in {EOF, "EOT"} -> LineRead(rd.got)
            [] b = "LF" -> LineRead(Append(rd.got, "LF"))
            [] OTHER ->
                 /\ rd' = [rd EXCEPT !.at = IF b = "CR" THEN "cookpair" ELSE @,
                                     !.iac = "data",
                                     !.got = CASE b \in {"NUL", "CR"} -> @
                                               [] b = "BS" -> Erase(@)
                                               [] OTHER -> Append(@, b)]
                 /\ UNCHANGED <<con_line, delivered, promised>>
  /\ con_pushback' = None

CookPair ==
  \E b \in Byte \cup {EOF} :
    /\ InByte("cookpair", b)
    /\ con_pushback' = Pushed(b)
    /\ LineRead(Append(rd.got, "LF"))

(***************************************************************************)
(* The guest                                                               *)
(***************************************************************************)

(* read(): a byte is there or the read starts to wait.  What is left of a  *)
(* cooked line is served only in cooked mode.                              *)
Read ==
  /\ rd.at = "idle"
  /\ \E max \in 1 .. MaxRead :
       IF tty = "cooked" /\ con_line # <<>>
         THEN LET k == IF max < Len(con_line) THEN max ELSE Len(con_line) IN
              /\ ReadReturns(SubSeq(con_line, 1, k))
              /\ con_line' = SubSeq(con_line, k + 1, Len(con_line))
         ELSE /\ rd' = [Idle EXCEPT !.at = IF tty = "raw" THEN "key" ELSE "cook",
                                    !.max = max]
              /\ UNCHANGED <<con_line, delivered, promised>>
  /\ UNCHANGED <<typed, wire, closed, sock, con_pushback, con_eof, tty>>

(* ioctl(FIONREAD), by a guest that will read if it reports something.     *)
Fionread ==
  /\ rd.at = "idle"
  /\ Available(con_pushback, sock, con_eof) # 0
  /\ promised' = TRUE
  /\ UNCHANGED <<typed, wire, closed, sock, con_pushback, con_eof, con_line,
                 tty, rd, delivered>>

(* ioctl(TIOCSETP)                                                         *)
SetMode ==
  /\ rd.at = "idle" /\ (Switches \/ typed = <<>>)
  /\ \E m \in Modes \ {tty} : tty' = m
  /\ promised' = FALSE
  /\ UNCHANGED <<typed, wire, closed, sock, con_pushback, con_eof, con_line,
                 rd, delivered>>

Receive == Swallow \/ ReadKey \/ ReadPair \/ CookByte \/ CookPair

ConNext == Type \/ HangUp \/ Arrive \/ Receive \/ Read \/ Fionread \/ SetMode

ConSpec == ConInit /\ [][ConNext]_conVars

(* The network delivers, the client leaves in the end, the guest reads     *)
(* again and a read that can receive does.                                 *)
FairSpec == /\ ConSpec
            /\ WF_conVars(HangUp) /\ WF_conVars(Arrive) /\ WF_conVars(Receive)
            /\ WF_conVars(Read)

(***************************************************************************)
(* Properties                                                              *)
(***************************************************************************)

(* What a guest in raw mode is to read for each key: "one RETURN is one    *)
(* keystroke" (console.c:522) and negotiation is none.                     *)
Keystroke(k) == CASE k \in {"RETURN", "CR"} -> <<"CR">>
                  [] k = "FF" -> <<"IAC">>
                  [] k \in {"WILL", "SB"} -> <<>>
                  [] OTHER -> <<k>>

Keystrokes(keys) == FlattenSeq([n \in DOMAIN keys |-> Keystroke(keys[n])])

(* ... and in cooked mode: lines, edited, with LF for RETURN; ^D sends     *)
(* what has been typed.                                                    *)
Edit(s, k) ==
  CASE k \in {"RETURN", "CR"} -> [out |-> s.out \o s.line \o <<"LF">>, line |-> <<>>]
    [] k = "EOT" -> [out |-> s.out \o s.line, line |-> <<>>]
    [] k = "BS" -> [s EXCEPT !.line = IF @ = <<>> THEN @ ELSE Front(@)]
    [] OTHER -> [s EXCEPT !.line = @ \o Keystroke(k)]

Cook(keys) ==
  LET cooked[n \in 0 .. Len(keys)] ==
        IF n = 0 THEN [out |-> <<>>, line |-> <<>>] ELSE Edit(cooked[n - 1], keys[n])
  IN  cooked[Len(keys)]

(* What the guest is to have read of everything typed; the second part may *)
(* be waiting for the end of its line.                                     *)
Intended == IF tty = "raw" THEN [out |-> Keystrokes(typed), line |-> <<>>]
            ELSE Cook(typed)

(* The guest reads what was typed, each key once, in order, however the    *)
(* bytes were encoded and cut up on their way, and never more at a time    *)
(* than it asked for (ConTypeOK).                                          *)
ReadsWhatWasTyped ==
  ConTypeOK /\ (~Switches => IsPrefix(delivered, Intended.out \o Intended.line))

(* Nothing typed is lost or stuck once the client has hung up: a read that *)
(* waits for more ends, and what was held back is read.                    *)
EverythingArrives == <>[](delivered = Intended.out \o Intended.line)

Blocked == rd.at \in {"key", "pair"} /\ ~CanReceive

(* FIONREAD answers "how many input bytes can be had WITHOUT BLOCKING"     *)
(* (console.c:419), and a raw read blocks only "for the FIRST byte, then   *)
(* takes whatever else is ALREADY waiting" (console.c:514).  A cooked read *)
(* waits for the rest of its line whatever has been reported.  A telnet    *)
(* command is counted as input, and a read may wait for the rest of it.    *)
Negotiated == {"WILL", "SB"} \cap Range(typed) # {}

ReadyMeansReady == Blocked /\ ~Negotiated => ~promised /\ rd.got = <<>>
=============================================================================
