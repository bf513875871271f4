-------------------------- MODULE KeyboardProofs --------------------------
(***************************************************************************)
(* Proofs about module Keyboard, for every set of keys and every size of   *)
(* kb_in.                                                                  *)
(*                                                                         *)
(* The bytes read so far by this call, those in kb_in and those still to   *)
(* come are one stream, a chain of pieces: each piece is the whole code of *)
(* a press or a release, or an acknowledgement, and records what the       *)
(* driver remembers before and after it and the event a press owes.  The   *)
(* driver stands at the first piece's start, the keys that are down and    *)
(* the locks are the last one's end.  A press appends a piece, and the     *)
(* byte that completes a code takes the first away (kernel/keyboard.c).    *)
(***************************************************************************)
EXTENDS Keyboard, SequenceTheorems, TLAPS

Bytes == 0 .. 255

-----------------------------------------------------------------------------
(* What the bytes on their way will do.                                    *)

\* What the driver remembers before and after it reads a piece of them, how many
\* events it has passed on by then and how many bytes it has read.
States == [mods : SUBSET Modifiers, locks : SUBSET Locks, nr : Int, at : Int]

\* A piece: all codes of a press or a release, or an acknowledgement.
Owes(t) == t.to.nr # t.from.nr

\* The modifiers that reading key k sets or clears.
Flags(k) == IF k \in DOMAIN FlagOf THEN {ModifierOf[ValueOf[k]]} ELSE {}

\* The locks once a press of k has been read.
LockPressed(k, locked) ==
  CASE k = "CAPS" -> Flip(locked, "caps_lock")
    [] k = "NUM" -> Flip(locked, "num_lock")
    [] k = "SCROLL" -> Flip(locked, "scroll_lock")
    [] OTHER -> locked

\* What a press of k passes on under these locks and modifiers.
EventOf(k, locked, flags) ==
  LET shift == flags \cap {"shift_l", "shift_r"} # {}
      key ==
        CASE k = "A" -> IF shift # ("caps_lock" \in locked) THEN "A" ELSE "a"
          [] k = "KP_8" -> IF shift \/ "num_lock" \in locked THEN "8" ELSE "UP"
          [] OTHER -> ValueOf[k]
  IN [key |-> key, pad |-> k = "KP_EN" \/ (k = "KP_8" /\ ~shift), flags |-> flags]

IsMake(t, k) ==
  /\ t.code = MakeCode[k]
  /\ t.to.mods = t.from.mods \cup Flags(k)
  /\ t.to.locks = LockPressed(k, t.from.locks)
  /\ t.to.nr = t.from.nr + IF k = "PAUSE" THEN 0 ELSE 1
  /\ k # "PAUSE" => t.event = EventOf(k, t.from.locks, t.to.mods)

IsBreak(t, k) ==
  /\ k # "PAUSE" /\ t.code = BreakCode(k)
  /\ t.to.mods = t.from.mods \ Flags(k)
  /\ t.to.locks = t.from.locks /\ t.to.nr = t.from.nr

IsAck(t) ==
  /\ t.code = <<KB_ACK>>
  /\ t.to.mods = t.from.mods /\ t.to.locks = t.from.locks /\ t.to.nr = t.from.nr

Pieces ==
  {t \in [code : Seq(Bytes), from : States, to : States, event : Events] :
     /\ t.to.at = t.from.at + Len(t.code)
     /\ IsAck(t) \/ \E k \in Keys : IsMake(t, k) \/ IsBreak(t, k)}

-----------------------------------------------------------------------------
(* The codes.                                                              *)

KnownKeys ==
  {"A", "ENTER", "F12", "L_SHFT", "R_SHFT", "L_CTRL", "R_CTRL", "L_ALT", "R_ALT", "CAPS", "NUM",
   "SCROLL", "U_ARROW", "KP_8", "KP_EN", "PRTSCRN", "PAUSE"}

\* The keys there are (module Keyboard's MakeCode).
LEMMA KeysAreKnown == Keys \subseteq KnownKeys
BY KeyboardAssumption DEF MakeCode, KnownKeys

\* A strict prefix is shorter, and equal as far as it goes.
LEMMA PrefixIsPointwise ==
  ASSUME NEW s \in Seq(Bytes), NEW t \in Seq(Bytes)
  PROVE  IsStrictPrefix(s, t) <=> Len(s) < Len(t) /\ \A i \in 1 .. Len(s) : s[i] = t[i]
<1>1. CASE Len(s) > Len(t)
  BY <1>1 DEF IsStrictPrefix, IsPrefix
<1>2. CASE Len(s) <= Len(t)
  <2>1. /\ SubSeq(s, 1, Len(s)) \in Seq(Bytes) /\ Len(SubSeq(s, 1, Len(s))) = Len(s)
        /\ \A i \in 1 .. Len(s) : SubSeq(s, 1, Len(s))[i] = s[i]
    BY <1>2
  <2>2. /\ SubSeq(t, 1, Len(s)) \in Seq(Bytes) /\ Len(SubSeq(t, 1, Len(s))) = Len(s)
        /\ \A i \in 1 .. Len(s) : SubSeq(t, 1, Len(s))[i] = t[i]
    BY <1>2
  <2>3. SubSeq(s, 1, Len(s)) = SubSeq(t, 1, Len(s)) <=> \A i \in 1 .. Len(s) : s[i] = t[i]
    BY <2>1, <2>2, SeqEqual
  <2>4. s = t <=> Len(s) = Len(t) /\ \A i \in 1 .. Len(s) : s[i] = t[i]
    BY SeqEqual
  <2> QED BY <1>2, <2>3, <2>4 DEF IsStrictPrefix, IsPrefix
<1> QED BY <1>1, <1>2

LEMMA LongCodes ==
  /\ PauseBreak \in Seq(Bytes) /\ PrintScreen \in Seq(Bytes) /\ PrintScreenReleased \in Seq(Bytes)
  /\ Len(PauseBreak) = 6 /\ Len(PrintScreen) = 4 /\ Len(PrintScreenReleased) = 4
BY DEF PauseBreak, PrintScreen, PrintScreenReleased, Bytes

\* keyboard_read waits for more at one of these places only.
Waits(s) ==
  \/ Len(s) = 1 /\ s[1] \in {\hE0, \hE1}
  \/ Len(s) = 2 /\ s[1] = \hE0 /\ s[2] \in {\h2A, \hB7}
  \/ Len(s) = 2 /\ s[1] = \hE1 /\ s[2] = \h1D
  \/ Len(s) = 3 /\ s[1] = \hE0 /\ s[2] = \h2A /\ s[3] = \hE0
  \/ Len(s) = 3 /\ s[1] = \hE0 /\ s[2] = \hB7 /\ s[3] = \hE0
  \/ Len(s) = 3 /\ s[1] = \hE1 /\ s[2] = \h1D /\ s[3] = \h45
  \/ Len(s) = 4 /\ s[1] = \hE1 /\ s[2] = \h1D /\ s[3] = \h45 /\ s[4] = \hE1
  \/ Len(s) = 5 /\ s[1] = \hE1 /\ s[2] = \h1D /\ s[3] = \h45 /\ s[4] = \hE1 /\ s[5] = \h9D

\* What keyboard_read waits after, byte by byte.
LEMMA WaitsWhere ==
  ASSUME NEW s \in Seq(Bytes), Len(s) \in 1 .. 6
  PROVE  MustGetMore(s) <=> Waits(s)
<1>1. MustGetMore(s) <=>
        \/ Len(s) < 6 /\ \A i \in 1 .. Len(s) : s[i] = PauseBreak[i]
        \/ Len(s) < 4 /\ \A i \in 1 .. Len(s) : s[i] = PrintScreen[i]
        \/ Len(s) < 4 /\ \A i \in 1 .. Len(s) : s[i] = PrintScreenReleased[i]
  BY PrefixIsPointwise, LongCodes, Zenon DEF MustGetMore
<1>2. /\ PauseBreak[1] = \hE1 /\ PauseBreak[2] = \h1D /\ PauseBreak[3] = \h45 /\ PauseBreak[4] = \hE1
      /\ PauseBreak[5] = \h9D
      /\ PrintScreen[1] = \hE0 /\ PrintScreen[2] = \h2A /\ PrintScreen[3] = \hE0
      /\ PrintScreenReleased[1] = \hE0 /\ PrintScreenReleased[2] = \hB7 /\ PrintScreenReleased[3] = \hE0
  BY DEF PauseBreak, PrintScreen, PrintScreenReleased
<1>3. CASE Len(s) = 1
  BY <1>1, <1>2, <1>3 DEF Waits
<1>4. CASE Len(s) = 2
  BY <1>1, <1>2, <1>4 DEF Waits
<1>5. CASE Len(s) = 3
  BY <1>1, <1>2, <1>5 DEF Waits
<1>6. CASE Len(s) = 4
  BY <1>1, <1>2, <1>6 DEF Waits
<1>7. CASE Len(s) = 5
  BY <1>1, <1>2, <1>7 DEF Waits
<1>8. CASE Len(s) = 6
  BY <1>1, <1>8 DEF Waits
<1> QED BY <1>3, <1>4, <1>5, <1>6, <1>7, <1>8

\* All other keys have one code, and four of them E0 in front of it.
PlainKeys == KnownKeys \ {"PRTSCRN", "PAUSE"}
Extended == {"R_CTRL", "R_ALT", "U_ARROW", "KP_EN"}
Row ==
  [A |-> \h1E, ENTER |-> \h1C, F12 |-> \h58, L_SHFT |-> \h2A, R_SHFT |-> \h36, L_CTRL |-> \h1D,
   R_CTRL |-> \h1D, L_ALT |-> \h38, R_ALT |-> \h38, CAPS |-> \h3A, NUM |-> \h45, SCROLL |-> \h46,
   U_ARROW |-> \h48, KP_8 |-> \h48, KP_EN |-> \h1C]
Short(k, c) == IF k \in Extended THEN <<\hE0, c>> ELSE <<c>>

LEMMA RowTypes == \A k \in PlainKeys : Row[k] \in Nat /\ Row[k] < 90 /\ FLAG_BREAK = 128
BY DEF PlainKeys, KnownKeys, Row, FLAG_BREAK

LEMMA MakeCodes ==
  /\ \A k \in PlainKeys : MakeCode[k] = Short(k, Row[k])
  /\ MakeCode["PRTSCRN"] = PrintScreen /\ MakeCode["PAUSE"] = PauseBreak
<1>1. \A k \in PlainKeys : MakeCode[k] = Short(k, Row[k])
  BY DEF PlainKeys, KnownKeys, Row, Short, Extended, MakeCode
<1> QED BY <1>1 DEF MakeCode

\* The codes of one or two bytes.
LEMMA ShortCode ==
  ASSUME NEW k, NEW c \in Bytes
  PROVE  /\ Short(k, c) \in Seq(Bytes) /\ Len(Short(k, c)) \in 1 .. 2
         /\ Short(k, c)[Len(Short(k, c))] = c
         /\ k \in Extended => Len(Short(k, c)) = 2 /\ Short(k, c)[1] = \hE0
         /\ k \notin Extended => Len(Short(k, c)) = 1
<1>1. CASE k \in Extended
  <2>1. Short(k, c) = <<\hE0, c>>
    BY <1>1 DEF Short
  <2>2. <<\hE0, c>> \in Seq(Bytes) /\ Len(<<\hE0, c>>) = 2 /\ <<\hE0, c>>[1] = \hE0 /\ <<\hE0, c>>[2] = c
    BY DEF Bytes
  <2> QED BY <1>1, <2>1, <2>2
<1>2. CASE k \notin Extended
  <2>1. Short(k, c) = <<c>>
    BY <1>2 DEF Short
  <2>2. <<c>> \in Seq(Bytes) /\ Len(<<c>>) = 1 /\ <<c>>[1] = c
    OBVIOUS
  <2> QED BY <1>2, <2>1, <2>2
<1> QED BY <1>1, <1>2

\* A key comes up with the code it went down with, plus FLAG_BREAK.
LEMMA BreakCodes ==
  /\ \A k \in PlainKeys : BreakCode(k) = Short(k, Row[k] + FLAG_BREAK)
  /\ BreakCode("PRTSCRN") = PrintScreenReleased /\ BreakCode("PAUSE") = <<>>
<1>1. ASSUME NEW k \in PlainKeys PROVE BreakCode(k) = Short(k, Row[k] + FLAG_BREAK)
  <2> DEFINE c == Row[k]
  <2>1. BreakCode(k) = [Short(k, c) EXCEPT ![Len(Short(k, c))] = @ + FLAG_BREAK]
    BY MakeCodes DEF BreakCode, PlainKeys
  <2>2. c \in Nat
    BY RowTypes
  <2> HIDE DEF c
  <2>3. CASE k \in Extended
    <3>1. Short(k, c) = <<\hE0, c>> /\ Short(k, c + FLAG_BREAK) = <<\hE0, c + FLAG_BREAK>>
      BY <2>3 DEF Short
    <3>2. Len(<<\hE0, c>>) = 2
      OBVIOUS
    <3>3. [<<\hE0, c>> EXCEPT ![2] = @ + FLAG_BREAK] = <<\hE0, c + FLAG_BREAK>>
      OBVIOUS
    <3> QED BY <2>1, <3>1, <3>2, <3>3 DEF c
  <2>4. CASE k \notin Extended
    <3>1. Short(k, c) = <<c>> /\ Short(k, c + FLAG_BREAK) = <<c + FLAG_BREAK>>
      BY <2>4 DEF Short
    <3>2. Len(<<c>>) = 1
      OBVIOUS
    <3>3. [<<c>> EXCEPT ![1] = @ + FLAG_BREAK] = <<c + FLAG_BREAK>>
      OBVIOUS
    <3> QED BY <2>1, <3>1, <3>2, <3>3 DEF c
  <2> QED BY <2>3, <2>4 DEF c
<1>2. BreakCode("PRTSCRN") = PrintScreenReleased /\ BreakCode("PAUSE") = <<>>
  BY DEF BreakCode
<1> QED BY <1>1, <1>2

\* No code is taken for the start of a longer one.
LEMMA RowBytes ==
  \A k \in PlainKeys :
    /\ Row[k] \in Bytes /\ Row[k] + FLAG_BREAK \in Bytes
    /\ Row[k] \notin {\hE0, \hE1} /\ Row[k] + FLAG_BREAK \notin {\hE0, \hE1}
BY RowTypes DEF Bytes

LEMMA CodesAreBytes ==
  ASSUME NEW k \in KnownKeys
  PROVE  /\ MakeCode[k] \in Seq(Bytes) /\ Len(MakeCode[k]) \in 1 .. 6
         /\ BreakCode(k) \in Seq(Bytes)
         /\ k # "PAUSE" => Len(BreakCode(k)) \in 1 .. 6
<1>1. CASE k \in PlainKeys
  <2>1. /\ MakeCode[k] \in Seq(Bytes) /\ Len(MakeCode[k]) \in 1 .. 2
        /\ BreakCode(k) \in Seq(Bytes) /\ Len(BreakCode(k)) \in 1 .. 2
    BY <1>1, RowBytes, ShortCode, MakeCodes, BreakCodes
  <2> QED BY <2>1
<1>2. CASE k = "PRTSCRN"
  BY <1>2, LongCodes, MakeCodes, BreakCodes
<1>3. CASE k = "PAUSE"
  <2>1. MakeCode[k] = PauseBreak /\ BreakCode(k) = <<>>
    BY <1>3, MakeCodes, BreakCodes
  <2>2. MakeCode[k] \in Seq(Bytes) /\ Len(MakeCode[k]) \in 1 .. 6
    BY <2>1, LongCodes
  <2>3. BreakCode(k) \in Seq(Bytes)
    BY <2>1
  <2> QED BY <1>3, <2>2, <2>3
<1> QED BY <1>1, <1>2, <1>3 DEF PlainKeys

\* No sequence has more bytes than Pause, or four and then more unless it is Pause.
LEMMA ReadAll ==
  ASSUME NEW s \in Seq(Bytes), Len(s) = 6 \/ (Len(s) = 4 /\ s[1] # \hE1)
  PROVE  ~MustGetMore(s)
<1>1. Len(s) \in 1 .. 6
  OBVIOUS
<1>2. MustGetMore(s) <=> Waits(s)
  BY <1>1, WaitsWhere
<1>3. CASE Len(s) = 6
  BY <1>2, <1>3 DEF Waits
<1>4. CASE Len(s) = 4 /\ s[1] # \hE1
  BY <1>2, <1>4 DEF Waits
<1> QED BY <1>3, <1>4

\* Of a long code every byte is waited for, and none after the last.
LEMMA ReadsLong ==
  ASSUME NEW c \in {PauseBreak, PrintScreen, PrintScreenReleased}, NEW s \in Seq(Bytes),
         Len(s) \in 1 .. Len(c), \A i \in 1 .. Len(s) : s[i] = c[i]
  PROVE  MustGetMore(s) <=> Len(s) < Len(c)
<1>1. c \in Seq(Bytes) /\ Len(c) \in 1 .. 6
  BY LongCodes
<1>2. CASE Len(s) < Len(c)
  BY <1>1, <1>2, PrefixIsPointwise DEF MustGetMore
<1>3. CASE Len(s) = Len(c)
  <2>1. s = c
    BY <1>1, <1>3, SeqEqual
  <2>2. CASE c = PauseBreak
    <3>1. Len(s) = 6
      BY <2>1, <2>2, LongCodes
    <3> QED BY <1>3, <3>1, ReadAll
  <2>3. CASE c \in {PrintScreen, PrintScreenReleased}
    <3>1. Len(s) = 4 /\ s[1] # \hE1
      BY <2>1, <2>3 DEF PrintScreen, PrintScreenReleased
    <3> QED BY <1>3, <3>1, ReadAll
  <2> QED BY <2>2, <2>3
<1> QED BY <1>1, <1>2, <1>3

LEMMA ReadsOne ==
  ASSUME NEW c \in Bytes, c \notin {\hE0, \hE1}, NEW s \in Seq(Bytes), Len(s) = 1, s[1] = c
  PROVE  ~MustGetMore(s)
<1>1. Len(s) \in 1 .. 6
  OBVIOUS
<1>2. MustGetMore(s) <=> Waits(s)
  BY <1>1, WaitsWhere
<1> QED BY <1>2 DEF Waits

LEMMA ReadsTwo ==
  ASSUME NEW c \in Bytes, c \notin {\h2A, \hB7}, NEW s \in Seq(Bytes), Len(s) \in 1 .. 2, s[1] = \hE0,
         Len(s) = 2 => s[2] = c
  PROVE  MustGetMore(s) <=> Len(s) = 1
<1>1. Len(s) \in 1 .. 6
  OBVIOUS
<1>2. MustGetMore(s) <=> Waits(s)
  BY <1>1, WaitsWhere
<1> QED BY <1>2 DEF Waits

\* The same for the codes of one or two bytes.
LEMMA ReadsShort ==
  ASSUME NEW k \in PlainKeys, NEW d \in {Row[k], Row[k] + FLAG_BREAK}, NEW s \in Seq(Bytes),
         Len(s) \in 1 .. Len(Short(k, d)), \A i \in 1 .. Len(s) : s[i] = Short(k, d)[i]
  PROVE  MustGetMore(s) <=> Len(s) < Len(Short(k, d))
<1>1. d \in Bytes /\ d \notin {\hE0, \hE1}
  BY RowBytes
<1>2. k \in Extended => d \notin {\h2A, \hB7}
  <2>1. k \in Extended => Row[k] \in {\h1D, \h38, \h48, \h1C}
    BY DEF Row, Extended
  <2> QED BY <2>1, RowTypes
<1>3. CASE k \in Extended
  <2>1. Len(Short(k, d)) = 2 /\ Short(k, d)[1] = \hE0 /\ Short(k, d)[2] = d
    BY <1>1, <1>3, ShortCode
  <2>2. Len(s) \in 1 .. 2 /\ s[1] = \hE0 /\ (Len(s) = 2 => s[2] = d)
    BY <2>1
  <2> QED BY <1>1, <1>2, <1>3, <2>1, <2>2, ReadsTwo
<1>4. CASE k \notin Extended
  <2>1. Len(Short(k, d)) = 1 /\ Short(k, d)[1] = d
    BY <1>1, <1>4, ShortCode
  <2>2. Len(s) = 1 /\ s[1] = d
    BY <2>1
  <2> QED BY <1>1, <2>1, <2>2, ReadsOne
<1> QED BY <1>3, <1>4

\* The code of a piece is one of these.
LEMMA CodeOfPiece ==
  ASSUME NEW t \in Pieces
  PROVE  /\ t.code \in Seq(Bytes) /\ Len(t.code) \in 1 .. 6
         /\ \/ t.code \in {PauseBreak, PrintScreen, PrintScreenReleased, <<KB_ACK>>}
            \/ \E k \in PlainKeys : \E d \in {Row[k], Row[k] + FLAG_BREAK} : t.code = Short(k, d)
<1>1. CASE IsAck(t)
  <2>1. <<KB_ACK>> \in Seq(Bytes) /\ Len(<<KB_ACK>>) = 1
    BY DEF KB_ACK, Bytes
  <2> QED BY <1>1, <2>1 DEF IsAck
<1>2. ASSUME NEW k \in Keys, IsMake(t, k) \/ IsBreak(t, k)
      PROVE  /\ t.code \in Seq(Bytes) /\ Len(t.code) \in 1 .. 6
             /\ \/ t.code \in {PauseBreak, PrintScreen, PrintScreenReleased}
                \/ k \in PlainKeys /\ \E d \in {Row[k], Row[k] + FLAG_BREAK} : t.code = Short(k, d)
  <2>1. k \in KnownKeys
    BY KeysAreKnown
  <2>2. t.code = MakeCode[k] \/ (k # "PAUSE" /\ t.code = BreakCode(k))
    BY <1>2 DEF IsMake, IsBreak
  <2>3. t.code \in Seq(Bytes) /\ Len(t.code) \in 1 .. 6
    BY <2>1, <2>2, CodesAreBytes
  <2>4. k \in PlainKeys \/ k = "PRTSCRN" \/ k = "PAUSE"
    BY <2>1 DEF PlainKeys
  <2> QED BY <2>2, <2>3, <2>4, MakeCodes, BreakCodes
<1>3. IsAck(t) \/ \E k \in Keys : IsMake(t, k) \/ IsBreak(t, k)
  BY DEF Pieces
<1> QED BY <1>1, <1>2, <1>3

\* keyboard_read reads each of the codes to its end and no further.
LEMMA ReadsToTheEnd ==
  ASSUME NEW t \in Pieces, NEW s \in Seq(Bytes), Len(s) \in 1 .. Len(t.code),
         \A i \in 1 .. Len(s) : s[i] = t.code[i]
  PROVE  MustGetMore(s) <=> Len(s) < Len(t.code)
<1>1. CASE t.code \in {PauseBreak, PrintScreen, PrintScreenReleased}
  BY <1>1, ReadsLong
<1>2. CASE t.code = <<KB_ACK>>
  <2>1. Len(t.code) = 1 /\ t.code[1] = KB_ACK
    BY <1>2
  <2>2. Len(s) = 1 /\ s[1] = KB_ACK
    BY <2>1
  <2>3. KB_ACK \in Bytes /\ KB_ACK \notin {\hE0, \hE1}
    BY DEF KB_ACK, Bytes
  <2> QED BY <2>1, <2>2, <2>3, ReadsOne
<1>3. ASSUME NEW k \in PlainKeys, NEW d \in {Row[k], Row[k] + FLAG_BREAK}, t.code = Short(k, d)
      PROVE  MustGetMore(s) <=> Len(s) < Len(t.code)
  BY <1>3, ReadsShort
<1> QED BY <1>1, <1>2, <1>3, CodeOfPiece

-----------------------------------------------------------------------------
(* Types and LEDs.                                                         *)

LEMMA LedBitsType == ASSUME NEW on PROVE LedBits(on) \in 0 .. 7
BY DEF LedBits

LEMMA KeymapType ==
  ASSUME NEW row
  PROVE  keymap(row)[1] \in KeyValues /\ keymap(row)[2] \in KeyValues /\ keymap(row)[3] \in KeyValues
<1>1. \/ keymap(row) = <<"a", "A", "0">> \/ keymap(row) = <<"ENTER", "ENTER", "PAD_ENTER">>
      \/ keymap(row) = <<"F12", "F12", "0">> \/ keymap(row) = <<"SHIFT_L", "SHIFT_L", "0">>
      \/ keymap(row) = <<"SHIFT_R", "SHIFT_R", "0">> \/ keymap(row) = <<"CTRL_L", "CTRL_L", "CTRL_R">>
      \/ keymap(row) = <<"ALT_L", "ALT_L", "ALT_R">> \/ keymap(row) = <<"CAPS_LOCK", "CAPS_LOCK", "0">>
      \/ keymap(row) = <<"NUM_LOCK", "NUM_LOCK", "0">>
      \/ keymap(row) = <<"SCROLL_LOCK", "SCROLL_LOCK", "0">>
      \/ keymap(row) = <<"PAD_8", "8", "UP">> \/ keymap(row) = <<"0", "0", "0">>
  BY DEF keymap
<1>2. {"a", "A", "0", "8", "ENTER", "F12", "UP", "PAD_8", "PAD_ENTER", "SHIFT_L", "SHIFT_R", "CTRL_L",
       "CTRL_R", "ALT_L", "ALT_R", "CAPS_LOCK", "NUM_LOCK", "SCROLL_LOCK"} \subseteq KeyValues
  BY DEF KeyValues, ModifierOf, LockOf
<1> QED BY <1>1, <1>2

LEMMA NumPadType == ASSUME NEW key \in KeyValues PROVE NumPad(key) \in KeyValues
BY DEF NumPad, KeyValues

LEMMA ReportType ==
  ASSUME TypeOK, NEW key \in KeyValues, NEW make \in BOOLEAN, Report(key, make), mods' \subseteq Modifiers
  PROVE  event' \in Events /\ pc' \in {"read", "LED_CODE", "in_process", pc}
<1>1. CASE make
  <2>1. event' = [key |-> NumPad(key), pad |-> key \in {"PAD_8", "PAD_ENTER"}, flags |-> mods']
    BY <1>1 DEF Report
  <2>2. NumPad(key) \in KeyValues
    BY NumPadType
  <2>3. pc' = "LED_CODE" \/ pc' = "in_process"
    BY <1>1 DEF Report
  <2> QED BY <2>1, <2>2, <2>3 DEF Events
<1>2. CASE ~make
  BY <1>2 DEF Report, TypeOK
<1> QED BY <1>1, <1>2

LEMMA ApplyType ==
  ASSUME TypeOK, NEW key, NEW make \in BOOLEAN, Apply(key, make)
  PROVE  mods' \subseteq Modifiers /\ locks' \subseteq Locks
<1>1. \A m \in DOMAIN ModifierOf : ModifierOf[m] \in Modifiers
  BY DEF ModifierOf, Modifiers
<1>2. \A l \in DOMAIN LockOf : LockOf[l] \in Locks
  BY DEF LockOf, Locks
<1>3. mods \subseteq Modifiers /\ locks \subseteq Locks
  BY DEF TypeOK
<1>4. mods' \subseteq Modifiers
  BY <1>1, <1>3 DEF Apply
<1>5. locks' \subseteq Locks
  BY <1>2, <1>3 DEF Apply, Flip
<1> QED BY <1>4, <1>5

\* The lamps change with the locks: set_leds is on its way.
LEMMA AnalyzeType ==
  ASSUME TypeOK, NEW bytes, Analyze(bytes)
  PROVE  /\ mods' \subseteq Modifiers /\ locks' \subseteq Locks /\ event' \in Events
         /\ pc' \in {"read", "LED_CODE", "in_process", pc}
         /\ locks' # locks => pc' = "LED_CODE"
<1>0. mods \subseteq Modifiers /\ locks \subseteq Locks
  BY DEF TypeOK
<1>1. ASSUME NEW key \in {"PAUSEBREAK", "PRINTSCREEN"}, NEW make \in BOOLEAN, Report(key, make),
             UNCHANGED <<mods, locks>>
      PROVE  event' \in Events /\ pc' \in {"read", "LED_CODE", "in_process", pc}
  <2>1. key \in KeyValues
    BY DEF KeyValues
  <2> QED BY <1>0, <1>1, <2>1, ReportType
<1>2. CASE bytes \in {PauseBreak, PrintScreen, PrintScreenReleased}
  <2>1. UNCHANGED <<mods, locks>>
    BY <1>2 DEF Analyze
  <2>2. \E key \in {"PAUSEBREAK", "PRINTSCREEN"}, make \in BOOLEAN : Report(key, make)
    BY <1>2 DEF Analyze
  <2> QED BY <1>0, <1>1, <2>1, <2>2
<1>3. ASSUME NEW key \in KeyValues, NEW make \in BOOLEAN, Apply(key, make), Report(key, make)
      PROVE  /\ mods' \subseteq Modifiers /\ locks' \subseteq Locks /\ event' \in Events
             /\ pc' \in {"read", "LED_CODE", "in_process", pc}
             /\ locks' # locks => pc' = "LED_CODE"
  <2>1. mods' \subseteq Modifiers /\ locks' \subseteq Locks
    BY <1>3, ApplyType
  <2>2. event' \in Events /\ pc' \in {"read", "LED_CODE", "in_process", pc}
    BY <1>3, <2>1, ReportType
  <2>3. locks' # locks => pc' = "LED_CODE"
    BY <1>3 DEF Apply, Report
  <2> QED BY <2>1, <2>2, <2>3
<1>4. CASE bytes \notin {PauseBreak, PrintScreen, PrintScreenReleased}
  <2>1. Decode(bytes)
    BY <1>4 DEF Analyze
  <2>2. \E key \in KeyValues, make \in BOOLEAN : Apply(key, make) /\ Report(key, make)
    <3> DEFINE make == ScanCode(bytes) < FLAG_BREAK
               row == keymap(ScanCode(bytes) % FLAG_BREAK)
               shift == mods \cap {"shift_l", "shift_r"} # {}
               caps == shift # ("caps_lock" \in locks /\ row[1] = "a")
               key == IF CodeWithE0(bytes) THEN row[3] ELSE IF caps THEN row[2] ELSE row[1]
    <3>1. Apply(key, make) /\ Report(key, make)
      BY <2>1 DEF Decode
    <3>2. key \in KeyValues
      BY KeymapType
    <3>3. make \in BOOLEAN
      OBVIOUS
    <3> HIDE DEF key, make
    <3> QED BY <3>1, <3>2, <3>3
  <2> QED BY <1>3, <2>2
<1> QED BY <1>2, <1>4

\* The two bytes of set_leds go to the keyboard in turn, and each is there before
\* the next is written.
LedsInTurn ==
  /\ ibf = <<>> => (expects = "leds" <=> pc = "leds")
  /\ ibf # <<>> /\ pc = "leds" => expects = "command"
  /\ ibf # <<>> /\ pc # "leds" => expects = "leds"
  /\ ibf # <<>> /\ pc = "LED_CODE" => ibf[1] \in 0 .. 7
  /\ pc \in {"read", "in_process"} =>
       IF ibf = <<>> THEN leds = LedBits(locks) ELSE ibf[1] = LedBits(locks)

\* The types and the LEDs.
DriverInv == TypeOK /\ LedsInTurn

\* DriverInv holds at first, and each step keeps it.
LEMMA InitDriverInv == Init => DriverInv
<1> SUFFICES ASSUME Init PROVE DriverInv
  OBVIOUS
<1>1. {"num_lock"} \subseteq Locks /\ NoEvent \in Events
  BY DEF Locks, NoEvent, Events, KeyValues
<1>2. <<>> \in Seq(0 .. 255) /\ <<KB_ACK>> \in Seq(0 .. 255) /\ <<KB_ACK, KB_ACK>> \in Seq(0 .. 255)
  BY DEF KB_ACK
<1>3. <<>> \in Seq(Events) /\ Len(<<>>) = 0
  OBVIOUS
<1>4. TypeOK
  <2>1. KB_IN_BYTES \in Nat /\ 0 <= KB_IN_BYTES
    BY KeyboardAssumption
  <2>2. line \in Seq(0 .. 255)
    BY <1>2 DEF Init
  <2>3. leds \in 0 .. 7
    BY LedBitsType DEF Init
  <2>4. /\ ibf = <<>> /\ queue = <<>> /\ got = <<>> /\ mods = {} /\ locks = {"num_lock"} /\ event = NoEvent
        /\ held = {} /\ expects = "command" /\ pc = "read" /\ dropped = FALSE /\ typed = <<>>
        /\ toggled = {"num_lock"}
    BY DEF Init
  <2>5. <<>> \in Seq(0 .. 255) /\ Len(<<>>) = 0
    OBVIOUS
  <2>6. /\ ibf \in Seq(0 .. 255) /\ Len(ibf) <= 1 /\ queue \in Seq(0 .. 255) /\ Len(queue) <= KB_IN_BYTES
        /\ got \in Seq(0 .. 255) /\ Len(got) <= 5
    BY <2>1, <2>4, <2>5
  <2>7. typed \in Seq(Events) /\ event \in Events /\ locks \subseteq Locks /\ toggled \subseteq Locks
    BY <1>1, <1>3, <2>4
  <2> QED BY <2>2, <2>3, <2>4, <2>6, <2>7 DEF TypeOK
<1> QED BY <1>4 DEF Init, DriverInv, LedsInTurn

\* What a press means is an event.
LEMMA MeaningType ==
  ASSUME TypeOK, NEW k \in Keys, NEW down \in SUBSET Keys, k # "PAUSE"
  PROVE  Meaning(k, down) \in Events
<1> DEFINE shift == down \cap {"L_SHFT", "R_SHFT"} # {}
           key == CASE k = "A" -> IF shift # ("caps_lock" \in toggled) THEN "A" ELSE "a"
                    [] k = "KP_8" -> IF shift \/ "num_lock" \in toggled THEN "8" ELSE "UP"
                    [] OTHER -> ValueOf[k]
           flags == {FlagOf[m] : m \in down \cap DOMAIN FlagOf}
<1>1. key \in KeyValues
  <2>1. k \notin {"A", "KP_8"} => ValueOf[k] \in KeyValues
    BY KeysAreKnown DEF KnownKeys, ValueOf, KeyValues, ModifierOf, LockOf
  <2>2. {"A", "a", "8", "UP"} \subseteq KeyValues
    BY DEF KeyValues
  <2> QED BY <2>1, <2>2
<1>2. flags \in SUBSET Modifiers
  BY DEF FlagOf, Modifiers
<1>3. Meaning(k, down) = [key |-> key, pad |-> k = "KP_EN" \/ (k = "KP_8" /\ ~shift), flags |-> flags]
  BY DEF Meaning
<1> HIDE DEF key, flags, shift
<1> QED BY <1>1, <1>2, <1>3 DEF Events

LEMMA PressType ==
  ASSUME DriverInv, NEW k \in Keys, Press(k)
  PROVE  DriverInv'
<1> USE DEF DriverInv
<1>1. UNCHANGED <<ibf, expects, leds, queue, got, mods, locks, event, pc, dropped>>
  BY DEF Press, driver
<1>2. held' \subseteq Keys
  BY DEF Press, TypeOK
<1>3. line' \in Seq(0 .. 255)
  <2>1. MakeCode[k] \in Seq(0 .. 255)
    BY KeysAreKnown, CodesAreBytes DEF Bytes
  <2>2. line' = line \o MakeCode[k] /\ line \in Seq(0 .. 255)
    BY DEF Press, TypeOK
  <2> QED BY <2>1, <2>2
<1>4. typed' \in Seq(Events)
  <2>1. typed \in Seq(Events)
    BY DEF TypeOK
  <2>2. k # "PAUSE" => Meaning(k, held') \in Events
    BY <1>2, MeaningType
  <2>3. typed' = typed \/ (k # "PAUSE" /\ typed' = Append(typed, Meaning(k, held')))
    BY DEF Press
  <2> QED BY <2>1, <2>2, <2>3
<1>5. toggled' \subseteq Locks
  BY DEF Press, TypeOK, Locks, Flip
<1>6. TypeOK'
  BY <1>1, <1>2, <1>3, <1>4, <1>5 DEF TypeOK
<1> QED BY <1>1, <1>6 DEF LedsInTurn

LEMMA ReleaseType ==
  ASSUME DriverInv, NEW k \in Keys, Release(k)
  PROVE  DriverInv'
<1> USE DEF DriverInv
<1>1. UNCHANGED <<ibf, expects, leds, queue, got, mods, locks, event, pc, dropped, typed, toggled>>
  BY DEF Release, driver, history
<1>2. held' \subseteq Keys
  BY DEF Release, TypeOK
<1>3. line' \in Seq(0 .. 255)
  <2>1. BreakCode(k) \in Seq(0 .. 255)
    BY KeysAreKnown, CodesAreBytes DEF Bytes
  <2>2. line' = line \o BreakCode(k) /\ line \in Seq(0 .. 255)
    BY DEF Release, TypeOK
  <2> QED BY <2>1, <2>2
<1>4. TypeOK'
  BY <1>1, <1>2, <1>3 DEF TypeOK
<1> QED BY <1>1, <1>4 DEF LedsInTurn

LEMMA KeyboardObeysType ==
  ASSUME DriverInv, KeyboardObeys
  PROVE  DriverInv'
<1> USE DEF DriverInv
<1>1. UNCHANGED <<held, queue, got, mods, locks, event, pc, dropped, typed, toggled>>
  BY DEF KeyboardObeys, driver, history
<1>2. line' \in Seq(0 .. 255)
  <2>1. KB_ACK \in 0 .. 255 /\ line' = Append(line, KB_ACK) /\ line \in Seq(0 .. 255)
    BY DEF KeyboardObeys, TypeOK, KB_ACK
  <2> QED BY <2>1
<1>3. ibf # <<>> /\ ibf' = <<>> /\ ibf' \in Seq(0 .. 255) /\ Len(ibf') = 0
  BY DEF KeyboardObeys
<1>4. CASE expects = "leds"
  <2>1. leds' = ibf[1] /\ expects' = "command" /\ pc # "leds"
    BY <1>3, <1>4 DEF KeyboardObeys, LedsInTurn
  <2>2. ibf[1] \in 0 .. 7 /\ (pc \in {"read", "in_process"} => ibf[1] = LedBits(locks))
    BY <1>3, <2>1, LedBitsType DEF LedsInTurn, TypeOK
  <2>3. TypeOK'
    BY <1>1, <1>2, <1>3, <2>1, <2>2 DEF TypeOK
  <2>4. LedsInTurn'
    BY <1>1, <1>3, <2>1, <2>2 DEF LedsInTurn
  <2> QED BY <2>3, <2>4
<1>5. CASE expects # "leds"
  <2>1. leds' = leds /\ expects' = "leds" /\ pc = "leds"
    BY <1>3, <1>5 DEF KeyboardObeys, LedsInTurn
  <2>2. TypeOK'
    BY <1>1, <1>2, <1>3, <2>1 DEF TypeOK
  <2>3. LedsInTurn'
    BY <1>1, <1>3, <2>1 DEF LedsInTurn
  <2> QED BY <2>2, <2>3
<1> QED BY <1>4, <1>5

LEMMA KeyboardHandlerType ==
  ASSUME DriverInv, keyboard_handler
  PROVE  DriverInv'
<1> USE DEF DriverInv
<1>1. UNCHANGED <<held, ibf, expects, leds, got, mods, locks, event, pc, toggled>>
  BY DEF keyboard_handler, driver
<1>2. /\ line # <<>> /\ line \in Seq(0 .. 255) /\ queue \in Seq(0 .. 255)
      /\ Len(queue) <= KB_IN_BYTES /\ KB_IN_BYTES \in Nat
  BY KeyboardAssumption DEF keyboard_handler, TypeOK
<1>3. line' = Tail(line) /\ Head(line) \in 0 .. 255
  BY <1>2, HeadTailProperties DEF keyboard_handler
<1>4. line' \in Seq(0 .. 255)
  BY <1>2, <1>3
<1>5. queue' \in Seq(0 .. 255) /\ Len(queue') <= KB_IN_BYTES
  <2>1. CASE Len(queue) < KB_IN_BYTES
    <3>1. queue' = Append(queue, Head(line))
      BY <2>1 DEF keyboard_handler
    <3> QED BY <1>2, <1>3, <2>1, <3>1
  <2>2. CASE ~(Len(queue) < KB_IN_BYTES)
    BY <1>2, <2>2 DEF keyboard_handler
  <2> QED BY <2>1, <2>2
<1>6. dropped' \in BOOLEAN /\ typed' \in Seq(Events)
  BY DEF keyboard_handler, TypeOK
<1>7. TypeOK'
  BY <1>1, <1>4, <1>5, <1>6 DEF TypeOK
<1> QED BY <1>1, <1>7 DEF LedsInTurn

LEMMA KeyboardReadType ==
  ASSUME DriverInv, keyboard_read
  PROVE  DriverInv'
<1> USE DEF DriverInv
<1> DEFINE bytes == Append(got, Head(queue))
<1>1. UNCHANGED <<held, line, ibf, expects, leds, dropped, typed, toggled>>
  BY DEF keyboard_read, keyboard, history
<1>2. queue \in Seq(0 .. 255) /\ queue # <<>> /\ queue' = Tail(queue) /\ got \in Seq(0 .. 255) /\ pc = "read"
  BY DEF keyboard_read, TypeOK
<1>3. queue' \in Seq(0 .. 255) /\ Len(queue') <= KB_IN_BYTES /\ Head(queue) \in 0 .. 255
  BY <1>2, HeadTailProperties, KeyboardAssumption DEF TypeOK
<1>4. bytes \in Seq(0 .. 255)
  BY <1>2, <1>3
<1>5. CASE MustGetMore(bytes)
  <2>1. got' = bytes /\ UNCHANGED <<mods, locks, event, pc>>
    BY <1>5 DEF keyboard_read
  <2>2. Len(bytes) <= 5
    <3>1. PICK s \in {PauseBreak, PrintScreen, PrintScreenReleased} : IsStrictPrefix(bytes, s)
      BY <1>5 DEF MustGetMore
    <3>2. s \in Seq(Bytes) /\ (Len(s) = 6 \/ Len(s) = 4)
      BY <3>1, LongCodes
    <3>3. bytes \in Seq(Bytes)
      BY <1>4 DEF Bytes
    <3> HIDE DEF bytes
    <3>4. Len(bytes) < Len(s)
      BY <3>1, <3>2, <3>3, PrefixIsPointwise
    <3> QED BY <3>2, <3>3, <3>4
  <2> HIDE DEF bytes
  <2>3. TypeOK'
    BY <1>1, <1>3, <1>4, <2>1, <2>2 DEF TypeOK
  <2> QED BY <1>1, <2>1, <2>3 DEF LedsInTurn
<1>6. CASE ~MustGetMore(bytes)
  <2>1. got' = <<>> /\ Analyze(bytes)
    BY <1>6 DEF keyboard_read
  <2> HIDE DEF bytes
  <2>2. /\ mods' \subseteq Modifiers /\ locks' \subseteq Locks /\ event' \in Events
        /\ pc' \in {"read", "LED_CODE", "in_process"}
        /\ locks' # locks => pc' = "LED_CODE"
    BY <1>2, <2>1, AnalyzeType
  <2>3. got' \in Seq(0 .. 255) /\ Len(got') <= 5
    BY <2>1
  <2>4. TypeOK'
    BY <1>1, <1>3, <2>2, <2>3 DEF TypeOK
  <2>5. LedsInTurn'
    <3>1. pc' # "leds" /\ pc # "leds" /\ (pc' # "LED_CODE" => LedBits(locks)' = LedBits(locks))
      BY <1>2, <2>2 DEF LedBits
    <3>2. LedBits(locks) \in 0 .. 7
      BY LedBitsType
    <3> QED BY <1>1, <1>2, <2>2, <3>1, <3>2 DEF LedsInTurn
  <2> QED BY <2>4, <2>5
<1> QED BY <1>5, <1>6

LEMMA SetLedsType ==
  ASSUME DriverInv, set_leds
  PROVE  DriverInv'
<1> USE DEF DriverInv
<1>1. UNCHANGED <<held, line, expects, leds, queue, got, mods, locks, event, dropped, typed, toggled>>
  BY DEF set_leds, history
<1>2. CASE pc = "LED_CODE" /\ ibf = <<>> /\ ibf' = <<LED_CODE>> /\ pc' = "leds"
  <2>1. ibf' \in Seq(0 .. 255) /\ Len(ibf') = 1 /\ ibf' # <<>>
    BY <1>2 DEF LED_CODE
  <2>2. TypeOK'
    BY <1>1, <1>2, <2>1 DEF TypeOK
  <2>3. expects' = "command"
    BY <1>1, <1>2 DEF LedsInTurn, TypeOK
  <2> QED BY <1>2, <2>1, <2>2, <2>3 DEF LedsInTurn
<1>3. CASE pc = "leds" /\ ibf = <<>> /\ ibf' = <<LedBits(locks)>> /\ pc' = "in_process"
  <2>1. LedBits(locks) \in 0 .. 7 /\ LedBits(locks)' = LedBits(locks)
    BY <1>1, LedBitsType
  <2>2. ibf' \in Seq(0 .. 255) /\ Len(ibf') = 1 /\ ibf' # <<>> /\ ibf'[1] = LedBits(locks)
    BY <1>3, <2>1
  <2>3. TypeOK'
    BY <1>1, <1>3, <2>2 DEF TypeOK
  <2>4. expects' = "leds"
    BY <1>1, <1>3 DEF LedsInTurn
  <2> QED BY <1>3, <2>1, <2>2, <2>3, <2>4 DEF LedsInTurn
<1> QED BY <1>2, <1>3 DEF set_leds

LEMMA InProcessType ==
  ASSUME DriverInv, in_process
  PROVE  DriverInv'
<1> USE DEF DriverInv
<1>1. UNCHANGED <<held, line, ibf, expects, leds, queue, got, mods, locks, dropped, toggled>>
  BY DEF in_process, keyboard
<1>2. pc = "in_process" /\ pc' = "read" /\ event' \in Events
  BY DEF in_process, NoEvent, Events, KeyValues
<1>3. typed' \in Seq(Events)
  BY DEF in_process, TypeOK
<1>4. TypeOK'
  BY <1>1, <1>2, <1>3 DEF TypeOK
<1> QED BY <1>1, <1>2, <1>4 DEF LedsInTurn

\* What keyboard_read remembers has its type, and the dialogue with the 8042 is in step:
\* the keyboard takes for a command what set_leds wrote as LED_CODE, for LEDs what it
\* wrote as LEDs, although kb_ack waits for no answer.
THEOREM KeyboardDriverInv == Spec => []DriverInv
<1>1. DriverInv /\ [Next]_vars => DriverInv'
  <2> SUFFICES ASSUME DriverInv, [Next]_vars PROVE DriverInv'
    OBVIOUS
  <2>1. CASE UNCHANGED vars
    BY <2>1 DEF DriverInv, TypeOK, LedsInTurn, vars, keyboard, driver, history
  <2> QED
    BY <2>1, PressType, ReleaseType, KeyboardObeysType, KeyboardHandlerType, KeyboardReadType,
       SetLedsType, InProcessType DEF Next, TaskTty
<1> QED BY InitDriverInv, <1>1, PTL DEF Spec

-----------------------------------------------------------------------------
(* What keyboard_read makes of a code.                                     *)

Shift == mods \cap {"shift_l", "shift_r"} # {}

\* The key that Decode finds for k.
KeyRead(k) ==
  CASE k = "A" -> IF Shift <=> ("caps_lock" \in locks) THEN "a" ELSE "A"
    [] k = "KP_8" -> IF Shift THEN "8" ELSE "PAD_8"
    [] k = "KP_EN" -> "PAD_ENTER"
    [] OTHER -> ValueOf[k]

\* The rows of keymap these keys have.
LEMMA Rows ==
  /\ keymap(Row["A"]) = <<"a", "A", "0">> /\ keymap(Row["ENTER"]) = <<"ENTER", "ENTER", "PAD_ENTER">>
  /\ keymap(Row["F12"]) = <<"F12", "F12", "0">>
  /\ keymap(Row["L_SHFT"]) = <<"SHIFT_L", "SHIFT_L", "0">>
  /\ keymap(Row["R_SHFT"]) = <<"SHIFT_R", "SHIFT_R", "0">>
  /\ keymap(Row["L_CTRL"]) = <<"CTRL_L", "CTRL_L", "CTRL_R">>
  /\ keymap(Row["R_CTRL"]) = <<"CTRL_L", "CTRL_L", "CTRL_R">>
  /\ keymap(Row["L_ALT"]) = <<"ALT_L", "ALT_L", "ALT_R">>
  /\ keymap(Row["R_ALT"]) = <<"ALT_L", "ALT_L", "ALT_R">>
  /\ keymap(Row["CAPS"]) = <<"CAPS_LOCK", "CAPS_LOCK", "0">>
  /\ keymap(Row["NUM"]) = <<"NUM_LOCK", "NUM_LOCK", "0">>
  /\ keymap(Row["SCROLL"]) = <<"SCROLL_LOCK", "SCROLL_LOCK", "0">>
  /\ keymap(Row["U_ARROW"]) = <<"PAD_8", "8", "UP">> /\ keymap(Row["KP_8"]) = <<"PAD_8", "8", "UP">>
  /\ keymap(Row["KP_EN"]) = <<"ENTER", "ENTER", "PAD_ENTER">>
BY DEF Row, keymap

\* Booleans differ when they are not equivalent.
LEMMA Differ == ASSUME NEW p \in BOOLEAN, NEW q \in BOOLEAN PROVE (p # q) <=> ~(p <=> q)
OBVIOUS

\* The column of keymap that keyboard_read takes is the key KeyRead names.
LEMMA KeyOfRow ==
  ASSUME NEW k \in PlainKeys, NEW row, row = keymap(Row[k]),
         NEW caps \in BOOLEAN, caps <=> ~(Shift <=> ("caps_lock" \in locks /\ row[1] = "a"))
  PROVE  (IF k \in Extended THEN row[3] ELSE IF caps THEN row[2] ELSE row[1]) = KeyRead(k)
<1>1. CASE k = "A"
  <2>1. row[1] = "a" /\ row[2] = "A"
    BY <1>1, Rows
  <2>2. caps <=> ~(Shift <=> ("caps_lock" \in locks))
    BY <2>1
  <2>3. KeyRead(k) = IF Shift <=> ("caps_lock" \in locks) THEN "a" ELSE "A"
    BY <1>1 DEF KeyRead
  <2> QED BY <1>1, <2>1, <2>2, <2>3 DEF Extended
<1>2. CASE k = "KP_8"
  <2>1. row[1] = "PAD_8" /\ row[2] = "8"
    BY <1>2, Rows
  <2>2. caps <=> Shift
    BY <2>1
  <2>3. KeyRead(k) = IF Shift THEN "8" ELSE "PAD_8"
    BY <1>2 DEF KeyRead
  <2> QED BY <1>2, <2>1, <2>2, <2>3 DEF Extended
<1>3. CASE k \in {"R_CTRL", "R_ALT", "U_ARROW"}
  <2>1. row[3] = ValueOf[k]
    BY <1>3, Rows DEF ValueOf
  <2> QED BY <1>3, <2>1 DEF KeyRead, Extended
<1>4. CASE k = "KP_EN"
  <2>1. row[3] = "PAD_ENTER"
    BY <1>4, Rows
  <2> QED BY <1>4, <2>1 DEF KeyRead, Extended
<1>5. CASE k \in {"ENTER", "F12", "L_SHFT", "R_SHFT", "L_CTRL", "L_ALT", "CAPS", "NUM", "SCROLL"}
  <2>1. row[1] = ValueOf[k] /\ row[2] = ValueOf[k]
    BY <1>5, Rows DEF ValueOf
  <2> QED BY <1>5, <2>1 DEF KeyRead, Extended
<1> QED BY <1>1, <1>2, <1>3, <1>4, <1>5 DEF PlainKeys, KnownKeys

\* What keyboard_read finds out about a code of one or two bytes.
LEMMA ShortIs ==
  ASSUME NEW k \in PlainKeys, NEW d \in {Row[k], Row[k] + FLAG_BREAK}
  PROVE  /\ ScanCode(Short(k, d)) = d /\ (CodeWithE0(Short(k, d)) <=> k \in Extended)
         /\ d % FLAG_BREAK = Row[k] /\ (d < FLAG_BREAK <=> d = Row[k])
         /\ Short(k, d) \notin {PauseBreak, PrintScreen, PrintScreenReleased}
<1>1. d \in Bytes /\ d \notin {\hE0, \hE1}
  BY RowBytes
<1>2. ASSUME k \in Extended
      PROVE  ScanCode(Short(k, d)) = d /\ CodeWithE0(Short(k, d))
  <2>1. Short(k, d) = <<\hE0, d>>
    BY <1>2 DEF Short
  <2>2. Len(<<\hE0, d>>) = 2 /\ <<\hE0, d>>[1] = \hE0 /\ <<\hE0, d>>[2] = d
    OBVIOUS
  <2>3. ScanCode(<<\hE0, d>>) = d
    BY <2>2 DEF ScanCode, Last
  <2>4. CodeWithE0(<<\hE0, d>>)
    BY <2>2 DEF CodeWithE0
  <2> QED BY <1>2, <2>1, <2>3, <2>4
<1>3. ASSUME k \notin Extended
      PROVE  ScanCode(Short(k, d)) = d /\ ~CodeWithE0(Short(k, d))
  <2>1. Short(k, d) = <<d>>
    BY <1>3 DEF Short
  <2>2. Len(<<d>>) = 1 /\ <<d>>[1] = d
    OBVIOUS
  <2>3. ScanCode(<<d>>) = d
    BY <1>1, <2>2 DEF ScanCode, Last
  <2>4. ~CodeWithE0(<<d>>)
    BY <2>2 DEF CodeWithE0
  <2> QED BY <1>3, <2>1, <2>3, <2>4
<1>4. d % FLAG_BREAK = Row[k] /\ (d < FLAG_BREAK <=> d = Row[k])
  BY RowTypes
<1>5. Len(Short(k, d)) \in 1 .. 2
  BY <1>1, ShortCode
<1>6. Short(k, d) \notin {PauseBreak, PrintScreen, PrintScreenReleased}
  <2>1. \A c \in {PauseBreak, PrintScreen, PrintScreenReleased} : Len(c) = 6 \/ Len(c) = 4
    BY LongCodes
  <2>2. Len(Short(k, d)) = 1 \/ Len(Short(k, d)) = 2
    BY <1>5
  <2> QED BY <2>1, <2>2
<1> QED BY <1>2, <1>3, <1>4, <1>6

\* So it applies and reports the key that was pressed or let go.
LEMMA DecodeShort ==
  ASSUME NEW k \in PlainKeys, NEW d \in {Row[k], Row[k] + FLAG_BREAK}, Analyze(Short(k, d))
  PROVE  Apply(KeyRead(k), d = Row[k]) /\ Report(KeyRead(k), d = Row[k])
<1> DEFINE bytes == Short(k, d)
           make == ScanCode(bytes) < FLAG_BREAK
           row == keymap(ScanCode(bytes) % FLAG_BREAK)
           caps == Shift # ("caps_lock" \in locks /\ row[1] = "a")
           key == IF CodeWithE0(bytes) THEN row[3] ELSE IF caps THEN row[2] ELSE row[1]
<1>1. Decode(bytes)
  BY ShortIs DEF Analyze
<1>2. Apply(key, make) /\ Report(key, make)
  BY <1>1 DEF Decode, Shift
<1>3. make = (d = Row[k]) /\ row = keymap(Row[k])
  BY ShortIs
<1>4. key = KeyRead(k)
  <2>1. key = IF k \in Extended THEN row[3] ELSE IF caps THEN row[2] ELSE row[1]
    BY ShortIs
  <2>2. caps <=> ~(Shift <=> ("caps_lock" \in locks /\ row[1] = "a"))
    BY Differ DEF Shift
  <2>3. caps \in BOOLEAN
    OBVIOUS
  <2> HIDE DEF row, key, caps
  <2> QED BY <1>3, <2>1, <2>2, <2>3, KeyOfRow
<1> HIDE DEF key, make
<1> QED BY <1>2, <1>3, <1>4

\* A modifier key is known as such by its value, and so is a lock key.
LEMMA KindOfKey ==
  ASSUME NEW k \in PlainKeys
  PROVE  /\ KeyRead(k) \in DOMAIN ModifierOf <=> k \in DOMAIN FlagOf
         /\ k \in DOMAIN FlagOf => KeyRead(k) = ValueOf[k]
         /\ KeyRead(k) \in DOMAIN LockOf <=> k \in {"CAPS", "NUM", "SCROLL"}
         /\ k = "CAPS" => KeyRead(k) = "CAPS_LOCK" /\ LockOf[KeyRead(k)] = "caps_lock"
         /\ k = "NUM" => KeyRead(k) = "NUM_LOCK" /\ LockOf[KeyRead(k)] = "num_lock"
         /\ k = "SCROLL" => KeyRead(k) = "SCROLL_LOCK" /\ LockOf[KeyRead(k)] = "scroll_lock"
<1>1. CASE k \in {"A", "KP_8", "KP_EN"}
  <2>1. KeyRead(k) \in {"A", "a", "8", "PAD_8", "PAD_ENTER"}
    BY <1>1 DEF KeyRead
  <2>2. DOMAIN ModifierOf = {"SHIFT_L", "SHIFT_R", "CTRL_L", "CTRL_R", "ALT_L", "ALT_R"}
    BY DEF ModifierOf
  <2>3. DOMAIN LockOf = {"CAPS_LOCK", "NUM_LOCK", "SCROLL_LOCK"}
    BY DEF LockOf
  <2>4. DOMAIN FlagOf = {"L_SHFT", "R_SHFT", "L_CTRL", "R_CTRL", "L_ALT", "R_ALT"}
    BY DEF FlagOf
  <2> QED BY <1>1, <2>1, <2>2, <2>3, <2>4
<1>2. CASE k \notin {"A", "KP_8", "KP_EN"}
  <2>1. KeyRead(k) = ValueOf[k]
    BY <1>2 DEF KeyRead
  <2>2. KeyRead(k) \in DOMAIN ModifierOf <=> k \in DOMAIN FlagOf
    BY <1>2, <2>1 DEF ValueOf, PlainKeys, KnownKeys, ModifierOf, FlagOf
  <2>3. KeyRead(k) \in DOMAIN LockOf <=> k \in {"CAPS", "NUM", "SCROLL"}
    BY <1>2, <2>1 DEF ValueOf, PlainKeys, KnownKeys, LockOf
  <2>4. /\ k = "CAPS" => KeyRead(k) = "CAPS_LOCK" /\ LockOf[KeyRead(k)] = "caps_lock"
        /\ k = "NUM" => KeyRead(k) = "NUM_LOCK" /\ LockOf[KeyRead(k)] = "num_lock"
        /\ k = "SCROLL" => KeyRead(k) = "SCROLL_LOCK" /\ LockOf[KeyRead(k)] = "scroll_lock"
    BY <2>1 DEF ValueOf, LockOf
  <2> QED BY <2>1, <2>2, <2>3, <2>4
<1> QED BY <1>1, <1>2

\* What a press that has been read does.
LEMMA PressRead ==
  ASSUME NEW k \in PlainKeys, Apply(KeyRead(k), TRUE), Report(KeyRead(k), TRUE)
  PROVE  /\ mods' = mods \cup Flags(k) /\ locks' = LockPressed(k, locks)
         /\ event' = EventOf(k, locks, mods') /\ event'.key # "PAUSEBREAK"
         /\ pc' \in {"LED_CODE", "in_process"}
<1>1. mods' = mods \cup Flags(k)
  BY KindOfKey DEF Apply, Flags
<1>2. locks' = LockPressed(k, locks)
  <2>1. CASE k \in {"CAPS", "NUM", "SCROLL"}
    BY <2>1, KindOfKey DEF Apply, LockPressed
  <2>2. CASE k \notin {"CAPS", "NUM", "SCROLL"}
    BY <2>2, KindOfKey DEF Apply, LockPressed
  <2> QED BY <2>1, <2>2
<1>3. pc' \in {"LED_CODE", "in_process"}
  BY DEF Report
<1>4. event' = [key |-> NumPad(KeyRead(k)), pad |-> KeyRead(k) \in {"PAD_8", "PAD_ENTER"}, flags |-> mods']
  BY DEF Report
<1>5. CASE k \in {"A", "KP_8"}
  <2>1. mods' = mods
    BY <1>1, <1>5 DEF Flags, FlagOf
  <2>2. CASE k = "A"
    <3>1. NumPad(KeyRead(k)) = IF Shift <=> ("caps_lock" \in locks) THEN "a" ELSE "A"
      BY <2>2 DEF KeyRead, NumPad
    <3>2. EventOf(k, locks, mods') = [key |-> IF Shift # ("caps_lock" \in locks) THEN "A" ELSE "a",
                                      pad |-> FALSE, flags |-> mods']
      BY <2>1, <2>2 DEF EventOf, Shift
    <3>3. KeyRead(k) \in {"A", "a"}
      BY <2>2 DEF KeyRead
    <3>4. (IF Shift <=> ("caps_lock" \in locks) THEN "a" ELSE "A")
            = IF Shift # ("caps_lock" \in locks) THEN "A" ELSE "a"
      BY Differ DEF Shift
    <3>5. (KeyRead(k) \in {"PAD_8", "PAD_ENTER"}) = FALSE
      BY <3>3
    <3>6. event' = EventOf(k, locks, mods')
      BY <1>4, <3>1, <3>2, <3>4, <3>5
    <3>7. event'.key \in {"a", "A"}
      BY <1>4, <3>1
    <3> QED BY <1>1, <1>2, <1>3, <3>6, <3>7
  <2>3. CASE k = "KP_8"
    <3>1. NumPad(KeyRead(k)) = IF Shift \/ "num_lock" \in locks THEN "8" ELSE "UP"
      BY <2>3 DEF KeyRead, NumPad
    <3>2. EventOf(k, locks, mods') = [key |-> IF Shift \/ "num_lock" \in locks THEN "8" ELSE "UP",
                                      pad |-> ~Shift, flags |-> mods']
      BY <2>1, <2>3 DEF EventOf, Shift
    <3>3. KeyRead(k) \in {"PAD_8", "PAD_ENTER"} <=> ~Shift
      BY <2>3 DEF KeyRead
    <3>4. (KeyRead(k) \in {"PAD_8", "PAD_ENTER"}) = ~Shift
      BY <3>3 DEF Shift
    <3>5. event' = EventOf(k, locks, mods')
      BY <1>4, <3>1, <3>2, <3>4
    <3>6. event'.key \in {"8", "UP"}
      BY <1>4, <3>1
    <3> QED BY <1>1, <1>2, <1>3, <3>5, <3>6
  <2> QED BY <1>5, <2>2, <2>3
<1>6. CASE k \notin {"A", "KP_8"}
  <2>1. EventOf(k, locks, mods') = [key |-> ValueOf[k], pad |-> k = "KP_EN", flags |-> mods']
    BY <1>6 DEF EventOf
  <2>2. NumPad(KeyRead(k)) = ValueOf[k] /\ (KeyRead(k) \in {"PAD_8", "PAD_ENTER"} <=> k = "KP_EN")
    BY <1>6 DEF KeyRead, NumPad, ValueOf, PlainKeys, KnownKeys
  <2>3. ValueOf[k] # "PAUSEBREAK"
    BY <1>6 DEF ValueOf, PlainKeys, KnownKeys
  <2> QED BY <1>1, <1>2, <1>3, <1>4, <2>1, <2>2, <2>3
<1> QED BY <1>5, <1>6

\* A release that has been read clears the flag, and passes nothing on.
LEMMA ReleaseRead ==
  ASSUME NEW k \in PlainKeys, Apply(KeyRead(k), FALSE), Report(KeyRead(k), FALSE)
  PROVE  mods' = mods \ Flags(k) /\ UNCHANGED <<locks, event, pc>>
BY KindOfKey DEF Apply, Report, Flags

\* An acknowledgement is read as the release of no key.
LEMMA AckRead ==
  ASSUME Analyze(<<KB_ACK>>)
  PROVE  UNCHANGED <<mods, locks, event, pc>>
<1>1. Len(<<KB_ACK>>) = 1 /\ <<KB_ACK>>[1] = KB_ACK
  OBVIOUS
<1>2. <<KB_ACK>> \notin {PauseBreak, PrintScreen, PrintScreenReleased}
  <2>1. \A c \in {PauseBreak, PrintScreen, PrintScreenReleased} : Len(c) = 6 \/ Len(c) = 4
    BY LongCodes
  <2> QED BY <1>1, <2>1
<1>3. Decode(<<KB_ACK>>)
  BY <1>2 DEF Analyze
<1>4. ScanCode(<<KB_ACK>>) = KB_ACK /\ ~CodeWithE0(<<KB_ACK>>)
  BY <1>1 DEF ScanCode, CodeWithE0, Last, KB_ACK
<1>5. ~(KB_ACK < FLAG_BREAK) /\ keymap(KB_ACK % FLAG_BREAK) = <<"0", "0", "0">>
  BY DEF KB_ACK, FLAG_BREAK, keymap
<1>6. <<"0", "0", "0">>[1] = "0" /\ <<"0", "0", "0">>[2] = "0"
  OBVIOUS
<1>7. Apply("0", FALSE) /\ Report("0", FALSE)
  <2> DEFINE make == ScanCode(<<KB_ACK>>) < FLAG_BREAK
             row == keymap(ScanCode(<<KB_ACK>>) % FLAG_BREAK)
             caps == Shift # ("caps_lock" \in locks /\ row[1] = "a")
             key == IF CodeWithE0(<<KB_ACK>>) THEN row[3] ELSE IF caps THEN row[2] ELSE row[1]
  <2>1. Apply(key, make) /\ Report(key, make)
    BY <1>3 DEF Decode, Shift
  <2>2. make = FALSE
    BY <1>4, <1>5
  <2>3. key = "0"
    BY <1>4, <1>5, <1>6
  <2> HIDE DEF make, key
  <2> QED BY <2>1, <2>2, <2>3
<1> QED BY <1>7 DEF Apply, Report, ModifierOf, LockOf

\* The long codes are three.
LEMMA LongDiffer == PrintScreen # PauseBreak /\ PrintScreenReleased # PauseBreak /\ PrintScreen # PrintScreenReleased
<1>1. PrintScreen[2] # PrintScreenReleased[2]
  BY DEF PrintScreen, PrintScreenReleased
<1>2. PauseBreak[1] # PrintScreen[1] /\ PauseBreak[1] # PrintScreenReleased[1]
  BY DEF PauseBreak, PrintScreen, PrintScreenReleased
<1> QED BY <1>1, <1>2

\* What a piece promises is what keyboard_read does.
LEMMA PieceRead ==
  ASSUME NEW t \in Pieces, t.from.mods = mods, t.from.locks = locks, pc = "read", Analyze(t.code)
  PROVE  /\ mods' = t.to.mods /\ locks' = t.to.locks
         /\ Owes(t) <=> pc' # "read" /\ event'.key # "PAUSEBREAK"
         /\ Owes(t) => event' = t.event
<1>0. t.from.nr \in Int
  BY DEF Pieces, States
<1>1. CASE IsAck(t)
  BY <1>1, AckRead DEF IsAck, Owes
<1>2. ASSUME NEW k \in PlainKeys, IsMake(t, k)
      PROVE  /\ mods' = t.to.mods /\ locks' = t.to.locks
             /\ Owes(t) /\ pc' # "read" /\ event'.key # "PAUSEBREAK" /\ event' = t.event
  <2>1. t.code = Short(k, Row[k])
    BY <1>2, MakeCodes DEF IsMake
  <2>2. Apply(KeyRead(k), TRUE) /\ Report(KeyRead(k), TRUE)
    BY <2>1, DecodeShort
  <2>3. /\ mods' = mods \cup Flags(k) /\ locks' = LockPressed(k, locks)
        /\ event' = EventOf(k, locks, mods') /\ event'.key # "PAUSEBREAK" /\ pc' # "read"
    BY <2>2, PressRead
  <2>4. k # "PAUSE"
    BY DEF PlainKeys
  <2>5. /\ mods' = t.to.mods /\ locks' = t.to.locks /\ t.to.nr = t.from.nr + 1
        /\ t.event = EventOf(k, locks, t.to.mods)
    BY <1>2, <2>3, <2>4 DEF IsMake
  <2>6. event' = t.event
    BY <2>3, <2>5
  <2> QED BY <1>0, <2>3, <2>5, <2>6 DEF Owes
<1>3. ASSUME NEW k \in PlainKeys, IsBreak(t, k)
      PROVE  mods' = t.to.mods /\ locks' = t.to.locks /\ ~Owes(t) /\ pc' = "read"
  <2>1. t.code = Short(k, Row[k] + FLAG_BREAK) /\ Row[k] + FLAG_BREAK # Row[k]
    BY <1>3, BreakCodes, RowTypes DEF IsBreak
  <2>2. Apply(KeyRead(k), FALSE) /\ Report(KeyRead(k), FALSE)
    BY <2>1, DecodeShort
  <2> QED BY <1>3, <2>2, ReleaseRead DEF IsBreak, Owes
<1>4. ASSUME IsMake(t, "PRTSCRN")
      PROVE  /\ mods' = t.to.mods /\ locks' = t.to.locks
             /\ Owes(t) /\ pc' # "read" /\ event'.key # "PAUSEBREAK" /\ event' = t.event
  <2>1. t.code = PrintScreen
    BY <1>4, MakeCodes DEF IsMake
  <2>2. UNCHANGED <<mods, locks>> /\ Report("PRINTSCREEN", TRUE)
    BY <2>1, LongDiffer DEF Analyze
  <2>3. event' = [key |-> "PRINTSCREEN", pad |-> FALSE, flags |-> mods'] /\ pc' # "read"
    <3>1. NumPad("PRINTSCREEN") = "PRINTSCREEN" /\ ("PRINTSCREEN" \in {"PAD_8", "PAD_ENTER"}) = FALSE
      BY DEF NumPad
    <3>2. event' = [key |-> NumPad("PRINTSCREEN"), pad |-> "PRINTSCREEN" \in {"PAD_8", "PAD_ENTER"},
                    flags |-> mods']
      BY <2>2 DEF Report
    <3>3. pc' # "read"
      BY <2>2 DEF Report
    <3> QED BY <3>1, <3>2, <3>3
  <2>4. t.to.mods = t.from.mods /\ t.to.locks = t.from.locks /\ t.to.nr = t.from.nr + 1
    BY <1>4 DEF IsMake, Flags, FlagOf, LockPressed
  <2>5. t.event = [key |-> "PRINTSCREEN", pad |-> FALSE, flags |-> t.to.mods]
    BY <1>4 DEF IsMake, EventOf, ValueOf
  <2> QED BY <1>0, <2>2, <2>3, <2>4, <2>5 DEF Owes
<1>5. ASSUME IsBreak(t, "PRTSCRN")
      PROVE  mods' = t.to.mods /\ locks' = t.to.locks /\ ~Owes(t) /\ pc' = "read"
  <2>1. t.code = PrintScreenReleased
    BY <1>5, BreakCodes DEF IsBreak
  <2>2. UNCHANGED <<mods, locks, pc>>
    BY <2>1, LongDiffer DEF Analyze, Report
  <2> QED BY <1>5, <2>2 DEF IsBreak, Flags, FlagOf, Owes
<1>6. ASSUME IsMake(t, "PAUSE")
      PROVE  mods' = t.to.mods /\ locks' = t.to.locks /\ ~Owes(t) /\ (pc' = "read" \/ event'.key = "PAUSEBREAK")
  <2>1. t.code = PauseBreak
    BY <1>6, MakeCodes DEF IsMake
  <2>2. UNCHANGED <<mods, locks>> /\ \E make \in BOOLEAN : Report("PAUSEBREAK", make)
    BY <2>1, LongDiffer DEF Analyze
  <2>3. pc' = "read" \/ event'.key = "PAUSEBREAK"
    BY <2>2 DEF Report, NumPad
  <2>4. t.to.mods = t.from.mods /\ t.to.locks = t.from.locks /\ t.to.nr = t.from.nr
    BY <1>0, <1>6 DEF IsMake, Flags, FlagOf, LockPressed
  <2> QED BY <2>2, <2>3, <2>4 DEF Owes
<1>7. \/ IsAck(t) \/ IsMake(t, "PRTSCRN") \/ IsBreak(t, "PRTSCRN") \/ IsMake(t, "PAUSE")
      \/ \E k \in PlainKeys : IsMake(t, k) \/ IsBreak(t, k)
  <2>1. IsAck(t) \/ \E k \in KnownKeys : IsMake(t, k) \/ IsBreak(t, k)
    BY KeysAreKnown DEF Pieces
  <2>2. \A k \in KnownKeys : k \in PlainKeys \/ k = "PRTSCRN" \/ k = "PAUSE"
    BY DEF PlainKeys
  <2>3. ~IsBreak(t, "PAUSE")
    BY DEF IsBreak
  <2> QED BY <2>1, <2>2, <2>3
<1> QED BY <1>1, <1>2, <1>3, <1>4, <1>5, <1>6, <1>7

-----------------------------------------------------------------------------
(* The pieces that make up the bytes.                                      *)

\* Piece t ends where u begins, or earlier.
Before(t, u) == t.to.at <= u.from.at /\ t.to.nr <= u.from.nr

\* Piece t lies between a and z, its code is in the stream where it says, and its event
\* is among those owed.
Fits(t, a, z, stream, owed, base) ==
  /\ a.at <= t.from.at /\ t.to.at <= z.at /\ a.nr <= t.from.nr /\ t.to.nr <= z.nr
  /\ \A j \in 1 .. Len(t.code) : stream[t.from.at - a.at + j] = t.code[j]
  /\ Owes(t) /\ "R_ALT" \notin Keys => owed[t.to.nr - base] = t.event

\* toks lead from a to z; their codes are stream, and owed the events from
\* number base + 1 on.
Chain(toks, a, z, stream, owed, base) ==
  /\ toks \in Seq(Pieces) /\ a \in States /\ z \in States /\ base \in Int
  /\ stream \in Seq(Bytes) /\ owed \in Seq(Events)
  /\ z.nr = base + Len(owed) /\ z.at = a.at + Len(stream) /\ base <= a.nr
  /\ toks = <<>> => a = z
  /\ toks # <<>> => toks[1].from = a /\ toks[Len(toks)].to = z
  /\ \A i \in 1 .. Len(toks) - 1 : toks[i].to = toks[i + 1].from
  /\ \A i, j \in 1 .. Len(toks) : i < j => Before(toks[i], toks[j])
  /\ \A i \in 1 .. Len(toks) : Fits(toks[i], a, z, stream, owed, base)

LEMMA StateType == ASSUME NEW s \in States PROVE s.at \in Int /\ s.nr \in Int
BY DEF States

\* The types of what a piece has.
LEMMA PieceType ==
  ASSUME NEW t \in Pieces
  PROVE  /\ t.code \in Seq(Bytes) /\ Len(t.code) \in 1 .. 6
         /\ t.from \in States /\ t.to \in States /\ t.to.at = t.from.at + Len(t.code)
         /\ t.to.nr = t.from.nr \/ t.to.nr = t.from.nr + 1
         /\ t.from.at \in Int /\ t.to.at \in Int /\ t.from.nr \in Int /\ t.to.nr \in Int
<1>1. t.from \in States /\ t.to \in States /\ t.to.at = t.from.at + Len(t.code)
  BY DEF Pieces
<1>2. t.from.at \in Int /\ t.to.at \in Int /\ t.from.nr \in Int /\ t.to.nr \in Int
  BY <1>1, StateType
<1>3. t.to.nr = t.from.nr \/ t.to.nr = t.from.nr + 1
  <2>1. IsAck(t) \/ \E k \in Keys : IsMake(t, k) \/ IsBreak(t, k)
    BY DEF Pieces
  <2> QED BY <1>2, <2>1 DEF IsAck, IsMake, IsBreak
<1> QED BY <1>1, <1>2, <1>3, CodeOfPiece

\* Arithmetic on indices, apart from the records they are components of.
LEMMA ByteIndex ==
  ASSUME NEW p \in Int, NEW q \in Int, NEW e \in Int, NEW y \in Int, NEW n \in Nat, NEW l \in Nat,
         NEW j \in 1 .. l, q <= p, e <= y, e = p + l, y = q + n
  PROVE  p - q + j \in 1 .. n
OBVIOUS

LEMMA EventIndex ==
  ASSUME NEW p \in Int, NEW q \in Int, NEW e \in Int, NEW y \in Int, NEW n \in Nat, NEW b \in Int,
         b <= q, q <= p, e <= y, e = p + 1, y = b + n
  PROVE  e - b \in 1 .. n
OBVIOUS

LEMMA PlusAssoc == \A p, m, n \in Int : p + (m + n) = p + m + n
OBVIOUS

LEMMA NextIndex == ASSUME NEW p \in Int, NEW b \in Int PROVE p - (b + 1) + 1 = p - b
OBVIOUS

LEMMA Rest ==
  ASSUME NEW p \in Int, NEW q \in Int, NEW y \in Int, NEW n \in Nat, NEW m \in Nat, NEW l \in Nat,
         q = p + l, y = p + n, m = n - l
  PROVE  y = q + m
OBVIOUS

LEMMA LastFollows ==
  ASSUME NEW p \in Int, NEW q \in Int, NEW e \in Int, NEW y \in Int, q <= p, p <= e, e <= y
  PROVE  q <= y
OBVIOUS

\* A piece, and its event if it owes one, can be added at the end.
LEMMA ChainAppend ==
  ASSUME NEW toks, NEW a, NEW z, NEW stream, NEW owed, NEW base,
         Chain(toks, a, z, stream, owed, base),
         NEW t \in Pieces, t.from = z, NEW owed2 \in Seq(Events),
         ~Owes(t) => owed2 = owed,
         Owes(t) => /\ Len(owed2) = Len(owed) + 1
                    /\ \A j \in 1 .. Len(owed) : owed2[j] = owed[j]
                    /\ "R_ALT" \notin Keys => owed2[Len(owed) + 1] = t.event
  PROVE  Chain(Append(toks, t), a, t.to, stream \o t.code, owed2, base)
<1> DEFINE toks2 == Append(toks, t)
           stream2 == stream \o t.code
<1>1. /\ toks \in Seq(Pieces) /\ a \in States /\ z \in States /\ base \in Int
      /\ stream \in Seq(Bytes) /\ owed \in Seq(Events)
      /\ z.nr = base + Len(owed) /\ z.at = a.at + Len(stream) /\ base <= a.nr
  BY DEF Chain
<1>2. a.at \in Int /\ a.nr \in Int /\ z.at \in Int /\ z.nr \in Int
  BY <1>1, StateType
<1>3. /\ t.code \in Seq(Bytes) /\ Len(t.code) \in 1 .. 6 /\ t.to \in States
      /\ t.to.at = z.at + Len(t.code) /\ t.to.at \in Int /\ t.to.nr \in Int
      /\ t.to.nr = z.nr \/ t.to.nr = z.nr + 1
  BY PieceType
<1>4. /\ toks2 \in Seq(Pieces) /\ Len(toks2) = Len(toks) + 1 /\ toks2[Len(toks) + 1] = t
      /\ \A i \in 1 .. Len(toks) : toks2[i] = toks[i]
  BY <1>1
<1>5. /\ stream2 \in Seq(Bytes) /\ Len(stream2) = Len(stream) + Len(t.code)
      /\ \A j \in 1 .. Len(stream) : stream2[j] = stream[j]
      /\ \A j \in 1 .. Len(t.code) : stream2[Len(stream) + j] = t.code[j]
  BY <1>1, <1>3
<1>6. Len(owed2) = Len(owed) + (t.to.nr - z.nr)
  BY <1>1, <1>2, <1>3, SMTT(30) DEF Owes
<1>7. a.at <= z.at /\ a.nr <= z.nr
  <2>1. CASE toks = <<>>
    BY <1>2, <2>1 DEF Chain
  <2>2. CASE toks # <<>>
    <3>1. Len(toks) \in 1 .. Len(toks) /\ toks[Len(toks)] \in Pieces
      BY <1>1, <2>2
    <3>2. Fits(toks[Len(toks)], a, z, stream, owed, base)
      BY <3>1 DEF Chain
    <3>3. PICK u \in Pieces : u = toks[Len(toks)]
      BY <3>1
    <3>4. /\ a.at <= u.from.at /\ u.to.at <= z.at /\ a.nr <= u.from.nr /\ u.to.nr <= z.nr
      BY <3>2, <3>3 DEF Fits
    <3>5. /\ u.from.at \in Int /\ u.to.at \in Int /\ u.from.nr \in Int /\ u.to.nr \in Int
          /\ u.to.at = u.from.at + Len(u.code) /\ Len(u.code) \in Nat
          /\ u.to.nr = u.from.nr \/ u.to.nr = u.from.nr + 1
      BY PieceType
    <3>6. u.from.at <= u.to.at /\ u.from.nr <= u.to.nr
      BY <3>5
    <3> QED BY <1>2, <3>4, <3>5, <3>6, LastFollows
  <2> QED BY <2>1, <2>2
<1>8. ASSUME NEW u \in Pieces, Fits(u, a, z, stream, owed, base)
      PROVE  Fits(u, a, t.to, stream2, owed2, base) /\ Before(u, t)
  <2>1. /\ a.at <= u.from.at /\ u.to.at <= z.at /\ a.nr <= u.from.nr /\ u.to.nr <= z.nr
        /\ \A j \in 1 .. Len(u.code) : stream[u.from.at - a.at + j] = u.code[j]
        /\ Owes(u) /\ "R_ALT" \notin Keys => owed[u.to.nr - base] = u.event
    BY <1>8 DEF Fits
  <2>2. /\ u.to.at = u.from.at + Len(u.code) /\ Len(u.code) \in 1 .. 6
        /\ u.from.at \in Int /\ u.to.at \in Int /\ u.from.nr \in Int /\ u.to.nr \in Int
        /\ u.to.nr = u.from.nr \/ u.to.nr = u.from.nr + 1
    BY PieceType
  <2>3. u.to.at <= t.to.at /\ u.to.nr <= t.to.nr
    BY <1>2, <1>3, <2>1, <2>2
  <2>4. ASSUME NEW j \in 1 .. Len(u.code) PROVE stream2[u.from.at - a.at + j] = u.code[j]
    <3>1. Len(stream) \in Nat /\ Len(u.code) \in Nat
      BY <1>1, <2>2
    <3>2. u.from.at - a.at + j \in 1 .. Len(stream)
      BY <1>1, <1>2, <2>1, <2>2, <3>1, ByteIndex
    <3> QED BY <1>5, <2>1, <3>2
  <2>5. ASSUME Owes(u), "R_ALT" \notin Keys PROVE owed2[u.to.nr - base] = u.event
    <3>1. Len(owed) \in Nat /\ u.to.nr = u.from.nr + 1
      BY <1>1, <2>2, <2>5 DEF Owes
    <3>2. u.to.nr - base \in 1 .. Len(owed)
      BY <1>1, <1>2, <2>1, <2>2, <3>1, EventIndex
    <3>3. owed2[u.to.nr - base] = owed[u.to.nr - base]
      BY <3>2
    <3> QED BY <2>1, <2>5, <3>3
  <2> QED BY <2>1, <2>3, <2>4, <2>5 DEF Fits, Before
<1>9. Fits(t, a, t.to, stream2, owed2, base)
  <2>1. a.at <= t.from.at /\ t.to.at <= t.to.at /\ a.nr <= t.from.nr /\ t.to.nr <= t.to.nr
    BY <1>2, <1>3, <1>7
  <2>2. ASSUME NEW j \in 1 .. Len(t.code) PROVE stream2[t.from.at - a.at + j] = t.code[j]
    <3>1. t.from.at - a.at = Len(stream)
      BY <1>1, <1>2
    <3> QED BY <1>5, <3>1
  <2>3. ASSUME Owes(t), "R_ALT" \notin Keys PROVE owed2[t.to.nr - base] = t.event
    <3>1. t.to.nr - base = Len(owed) + 1
      BY <1>1, <1>2, <1>3, <2>3 DEF Owes
    <3> QED BY <2>3, <3>1
  <2> QED BY <2>1, <2>2, <2>3 DEF Fits
<1>10. \A i \in 1 .. Len(toks) : toks[i] \in Pieces /\ Fits(toks[i], a, z, stream, owed, base)
  BY <1>1 DEF Chain
<1>11. t.to.nr = base + Len(owed2) /\ t.to.at = a.at + Len(stream2)
  <2>1. Len(owed) \in Nat /\ Len(owed2) \in Nat /\ Len(stream) \in Nat /\ Len(stream2) \in Nat
    BY <1>1, <1>5
  <2>2. Len(stream2) = Len(stream) + (t.to.at - z.at)
    BY <1>2, <1>3, <1>5, <2>1
  <2> HIDE DEF stream2
  <2>3. /\ z.nr \in Int /\ t.to.nr \in Int /\ base \in Int /\ z.nr = base + Len(owed)
        /\ z.at \in Int /\ t.to.at \in Int /\ a.at \in Int /\ z.at = a.at + Len(stream)
    BY <1>1, <1>2, <1>3
  <2>4. t.to.nr = base + Len(owed2)
    BY <1>6, <2>1, <2>3
  <2>5. t.to.at = a.at + Len(stream2)
    BY <2>1, <2>2, <2>3, SMTT(30)
  <2> QED BY <2>4, <2>5
<1>12. toks2 # <<>> /\ toks2[1].from = a /\ toks2[Len(toks2)].to = t.to
  <2>1. CASE toks = <<>>
    BY <1>4, <2>1 DEF Chain
  <2>2. CASE toks # <<>>
    <3>1. 1 \in 1 .. Len(toks)
      BY <1>1, <2>2
    <3> QED BY <1>1, <1>4, <2>2, <3>1 DEF Chain
  <2> QED BY <2>1, <2>2
<1>13. ASSUME NEW i \in 1 .. Len(toks2) - 1 PROVE toks2[i].to = toks2[i + 1].from
  <2>1. i \in 1 .. Len(toks) /\ toks # <<>>
    BY <1>1, <1>4
  <2>2. CASE i = Len(toks)
    <3>1. toks[i].to = z
      BY <2>1, <2>2 DEF Chain
    <3> QED BY <1>4, <2>1, <2>2, <3>1
  <2>3. CASE i # Len(toks)
    <3>1. i \in 1 .. Len(toks) - 1 /\ i + 1 \in 1 .. Len(toks)
      BY <1>1, <2>1, <2>3
    <3> QED BY <1>4, <2>1, <3>1 DEF Chain
  <2> QED BY <2>2, <2>3
<1>14. ASSUME NEW i \in 1 .. Len(toks2), NEW j \in 1 .. Len(toks2), i < j PROVE Before(toks2[i], toks2[j])
  <2>1. i \in 1 .. Len(toks)
    BY <1>1, <1>4, <1>14
  <2>2. CASE j = Len(toks) + 1
    BY <1>4, <1>8, <1>10, <2>1, <2>2
  <2>3. CASE j # Len(toks) + 1
    <3>1. j \in 1 .. Len(toks)
      BY <1>1, <1>4, <2>3
    <3> QED BY <1>4, <1>14, <2>1, <3>1 DEF Chain
  <2> QED BY <2>2, <2>3
<1>15. ASSUME NEW i \in 1 .. Len(toks2) PROVE Fits(toks2[i], a, t.to, stream2, owed2, base)
  <2>1. CASE i = Len(toks) + 1
    BY <1>4, <1>9, <2>1
  <2>2. CASE i # Len(toks) + 1
    <3>1. i \in 1 .. Len(toks)
      BY <1>1, <1>4, <2>2
    <3> QED BY <1>4, <1>8, <1>10, <3>1
  <2> QED BY <2>1, <2>2
<1> HIDE DEF toks2, stream2
<1> QED BY <1>1, <1>3, <1>4, <1>5, <1>11, <1>12, <1>13, <1>14, <1>15 DEF Chain, toks2, stream2

\* The first piece has been read.
LEMMA ChainTail ==
  ASSUME NEW toks, NEW a, NEW z, NEW stream, NEW owed, NEW base,
         Chain(toks, a, z, stream, owed, base), toks # <<>>,
         NEW rest \in Seq(Bytes), stream = toks[1].code \o rest
  PROVE  Chain(Tail(toks), toks[1].to, z, rest, owed, base)
<1> DEFINE toks2 == Tail(toks)
           b == toks[1].to
<1>1. /\ toks \in Seq(Pieces) /\ a \in States /\ z \in States /\ base \in Int
      /\ stream \in Seq(Bytes) /\ owed \in Seq(Events)
      /\ z.nr = base + Len(owed) /\ z.at = a.at + Len(stream) /\ base <= a.nr
  BY DEF Chain
<1>2. a.at \in Int /\ a.nr \in Int /\ z.at \in Int /\ z.nr \in Int
  BY <1>1, StateType
<1>3. 1 \in 1 .. Len(toks) /\ toks[1] \in Pieces /\ Len(toks) \in Nat
  BY <1>1
<1>4. PICK t \in Pieces : t = toks[1]
  BY <1>3
<1>5. /\ Len(t.code) \in 1 .. 6 /\ t.from = a /\ t.to = b /\ b \in States
      /\ b.at = a.at + Len(t.code) /\ b.at \in Int /\ b.nr \in Int
      /\ b.nr = a.nr \/ b.nr = a.nr + 1
  BY <1>3, <1>4, PieceType DEF Chain
<1>5a. /\ t.code \in Seq(Bytes) /\ Len(stream) = Len(t.code) + Len(rest)
       /\ \A j \in 1 .. Len(rest) : stream[Len(t.code) + j] = rest[j]
  BY <1>4, PieceType
<1>6. /\ toks2 \in Seq(Pieces) /\ Len(toks2) = Len(toks) - 1
      /\ \A i \in 1 .. Len(toks2) : toks2[i] = toks[i + 1]
  BY <1>1, HeadTailProperties
<1> HIDE DEF toks2, b
<1>7. base <= b.nr /\ z.at = b.at + Len(rest)
  <2>1. base <= b.nr
    BY <1>1, <1>2, <1>5
  <2>2. z.at = a.at + Len(t.code) + Len(rest)
    <3>1. a.at \in Int /\ Len(t.code) \in Nat /\ Len(rest) \in Nat
      BY <1>2, <1>5a
    <3>2. z.at = a.at + Len(stream) /\ Len(stream) = Len(t.code) + Len(rest)
      BY <1>1, <1>5a
    <3>3. z.at = a.at + (Len(t.code) + Len(rest))
      BY <3>2, Zenon
    <3> QED BY <3>1, <3>3, PlusAssoc
  <2> QED BY <1>5, <2>1, <2>2
<1>8. toks2 = <<>> => b = z
  <2>1. ASSUME toks2 = <<>> PROVE Len(toks) = 1
    BY <1>3, <1>6, <2>1
  <2> QED BY <2>1 DEF Chain, b
<1>9. toks2 # <<>> => toks2[1].from = b /\ toks2[Len(toks2)].to = z
  <2> SUFFICES ASSUME toks2 # <<>> PROVE toks2[1].from = b /\ toks2[Len(toks2)].to = z
    OBVIOUS
  <2>1. 1 \in 1 .. Len(toks2) /\ Len(toks2) \in 1 .. Len(toks2) /\ 1 \in 1 .. Len(toks) - 1
    BY <1>3, <1>6
  <2>2. toks2[1] = toks[2] /\ toks2[Len(toks2)] = toks[Len(toks)]
    BY <1>3, <1>6, <2>1
  <2>3. toks[1].to = toks[2].from
    BY <2>1 DEF Chain
  <2> QED BY <2>2, <2>3 DEF Chain, b
<1>10. ASSUME NEW i \in 1 .. Len(toks2) - 1 PROVE toks2[i].to = toks2[i + 1].from
  <2>1. i \in 1 .. Len(toks2) /\ i + 1 \in 1 .. Len(toks2) /\ i + 1 \in 1 .. Len(toks) - 1
    BY <1>3, <1>6
  <2>2. toks[i + 1].to = toks[i + 1 + 1].from
    BY <2>1 DEF Chain
  <2> QED BY <1>6, <2>1, <2>2
<1>11. ASSUME NEW i \in 1 .. Len(toks2), NEW j \in 1 .. Len(toks2), i < j PROVE Before(toks2[i], toks2[j])
  <2>1. i + 1 \in 1 .. Len(toks) /\ j + 1 \in 1 .. Len(toks) /\ i + 1 < j + 1
    BY <1>3, <1>6, <1>11
  <2>2. Before(toks[i + 1], toks[j + 1])
    BY <2>1 DEF Chain
  <2> QED BY <1>6, <2>2
<1>12. ASSUME NEW u \in Pieces, Fits(u, a, z, stream, owed, base), Before(t, u)
       PROVE  Fits(u, b, z, rest, owed, base)
  <2>1. /\ a.at <= u.from.at /\ u.to.at <= z.at /\ a.nr <= u.from.nr /\ u.to.nr <= z.nr
        /\ \A j \in 1 .. Len(u.code) : stream[u.from.at - a.at + j] = u.code[j]
        /\ Owes(u) /\ "R_ALT" \notin Keys => owed[u.to.nr - base] = u.event
    BY <1>12 DEF Fits
  <2>2. b.at <= u.from.at /\ b.nr <= u.from.nr
    BY <1>5, <1>12 DEF Before
  <2>3. /\ u.to.at = u.from.at + Len(u.code) /\ Len(u.code) \in Nat /\ u.from.at \in Int /\ u.to.at \in Int
    BY PieceType
  <2>4. ASSUME NEW j \in 1 .. Len(u.code) PROVE rest[u.from.at - b.at + j] = u.code[j]
    <3>1. Len(rest) \in Nat
      OBVIOUS
    <3>2. u.from.at - b.at + j \in 1 .. Len(rest)
      BY <1>2, <1>5, <1>7, <2>1, <2>2, <2>3, <3>1, ByteIndex
    <3>3. Len(t.code) + (u.from.at - b.at + j) = u.from.at - a.at + j
      <4>1. Len(t.code) \in Nat /\ b.at = a.at + Len(t.code) /\ b.at \in Int /\ a.at \in Int /\ u.from.at \in Int
        BY <1>2, <1>5, <2>3
      <4> QED BY <4>1, SMTT(30)
    <3>4. rest[u.from.at - b.at + j] = stream[Len(t.code) + (u.from.at - b.at + j)]
      BY <1>5a, <3>2
    <3> QED BY <2>1, <3>3, <3>4
  <2> QED BY <2>1, <2>2, <2>4 DEF Fits
<1>13. ASSUME NEW i \in 1 .. Len(toks2) PROVE Fits(toks2[i], b, z, rest, owed, base)
  <2>1. i + 1 \in 1 .. Len(toks) /\ 1 < i + 1
    BY <1>3, <1>6
  <2>2. toks[i + 1] \in Pieces
    BY <1>1, <2>1
  <2>3. Fits(toks[i + 1], a, z, stream, owed, base) /\ Before(toks[1], toks[i + 1])
    BY <1>3, <2>1 DEF Chain
  <2>4. Fits(toks[i + 1], b, z, rest, owed, base)
    BY <1>4, <1>12, <2>2, <2>3
  <2> QED BY <1>6, <2>4
<1> QED BY <1>1, <1>5, <1>6, <1>7, <1>8, <1>9, <1>10, <1>11, <1>13 DEF Chain, toks2, b

\* The first event has been passed on.
LEMMA ChainPop ==
  ASSUME NEW toks, NEW a, NEW z, NEW stream, NEW owed, NEW base,
         Chain(toks, a, z, stream, owed, base), owed # <<>>, base + 1 <= a.nr
  PROVE  Chain(toks, a, z, stream, Tail(owed), base + 1)
<1>1. /\ toks \in Seq(Pieces) /\ a \in States /\ z \in States /\ base \in Int
      /\ stream \in Seq(Bytes) /\ owed \in Seq(Events)
      /\ z.nr = base + Len(owed) /\ z.at = a.at + Len(stream) /\ base <= a.nr
  BY DEF Chain
<1>2. a.nr \in Int /\ z.nr \in Int
  BY <1>1, StateType
<1>3. /\ Tail(owed) \in Seq(Events) /\ Len(Tail(owed)) = Len(owed) - 1
      /\ \A j \in 1 .. Len(Tail(owed)) : Tail(owed)[j] = owed[j + 1]
  BY <1>1, HeadTailProperties
<1>4. ASSUME NEW i \in 1 .. Len(toks) PROVE Fits(toks[i], a, z, stream, Tail(owed), base + 1)
  <2>1. toks[i] \in Pieces
    BY <1>1
  <2>2. PICK u \in Pieces : u = toks[i]
    BY <2>1
  <2>3. Fits(u, a, z, stream, owed, base)
    BY <2>2 DEF Chain
  <2>4. /\ u.from.nr \in Int /\ u.to.nr \in Int
        /\ u.to.nr = u.from.nr \/ u.to.nr = u.from.nr + 1
    BY PieceType
  <2> DEFINE next == base + 1
  <2>5. ASSUME Owes(u), "R_ALT" \notin Keys PROVE Tail(owed)[u.to.nr - (base + 1)] = u.event
    <3>1. /\ u.to.nr = u.from.nr + 1 /\ a.nr <= u.from.nr /\ u.to.nr <= z.nr
          /\ owed[u.to.nr - base] = u.event
      BY <2>3, <2>4, <2>5 DEF Owes, Fits
    <3>2. Len(Tail(owed)) \in Nat /\ next \in Int /\ next <= a.nr /\ z.nr = next + Len(Tail(owed))
      BY <1>1, <1>2, <1>3
    <3>4. u.to.nr - next + 1 = u.to.nr - base
      BY <1>1, <2>4, NextIndex
    <3> HIDE DEF next
    <3>3. u.to.nr - next \in 1 .. Len(Tail(owed))
      BY <1>2, <2>4, <3>1, <3>2, EventIndex
    <3>5. Tail(owed)[u.to.nr - next] = u.event
      BY <1>3, <3>1, <3>3, <3>4
    <3> QED BY <3>5 DEF next
  <2> QED BY <2>2, <2>3, <2>5 DEF Fits
<1>5. base + 1 \in Int /\ z.nr = base + 1 + Len(Tail(owed))
  BY <1>1, <1>2, <1>3
<1> QED BY <1>1, <1>3, <1>4, <1>5 DEF Chain

\* A chain of no piece leads nowhere.
LEMMA ChainEmpty ==
  ASSUME NEW a \in States
  PROVE  Chain(<<>>, a, a, <<>>, <<>>, a.nr)
<1>1. a.at \in Int /\ a.nr \in Int
  BY StateType
<1>2. <<>> \in Seq(Pieces) /\ <<>> \in Seq(Bytes) /\ <<>> \in Seq(Events) /\ Len(<<>>) = 0
  OBVIOUS
<1>3. a.nr = a.nr + 0 /\ a.at = a.at + 0 /\ a.nr <= a.nr /\ 1 .. 0 = {} /\ 1 .. (0 - 1) = {}
  BY <1>1
<1> QED BY <1>1, <1>2, <1>3 DEF Chain

\* An acknowledgement is on its way.
After(z, n) == [mods |-> z.mods, locks |-> z.locks, nr |-> z.nr, at |-> z.at + n]

\* An acknowledgement can be added at the end.
LEMMA ChainAck ==
  ASSUME NEW toks, NEW a, NEW z, NEW stream, NEW owed, NEW base,
         Chain(toks, a, z, stream, owed, base)
  PROVE  \E toks2 : /\ Chain(toks2, a, After(z, 1), stream \o <<KB_ACK>>, owed, base)
                    /\ toks # <<>> => toks2 # <<>> /\ toks2[1] = toks[1]
<1> DEFINE t == [code |-> <<KB_ACK>>, from |-> z, to |-> After(z, 1), event |-> NoEvent]
<1>1. z \in States /\ owed \in Seq(Events)
  BY DEF Chain
<1>2. After(z, 1) \in States /\ After(z, 1).at = z.at + 1
  BY <1>1 DEF After, States
<1>3. NoEvent \in Events
  BY DEF NoEvent, Events, KeyValues
<1>4. <<KB_ACK>> \in Seq(Bytes) /\ Len(<<KB_ACK>>) = 1
  BY DEF KB_ACK, Bytes
<1>5. t \in [code : Seq(Bytes), from : States, to : States, event : Events]
  BY <1>1, <1>2, <1>3, <1>4
<1>6. IsAck(t) /\ ~Owes(t)
  BY DEF IsAck, Owes, After
<1>7. t \in Pieces
  BY <1>2, <1>4, <1>5, <1>6 DEF Pieces
<1>8. t.from = z /\ t.to = After(z, 1) /\ t.code = <<KB_ACK>>
  OBVIOUS
<1> HIDE DEF t
<1>9. Chain(Append(toks, t), a, t.to, stream \o t.code, owed, base)
  BY <1>1, <1>6, <1>7, <1>8, ChainAppend
<1>10. toks \in Seq(Pieces) /\ (toks # <<>> => Append(toks, t) # <<>> /\ Append(toks, t)[1] = toks[1])
  BY <1>7, SMTT(30) DEF Chain
<1> QED BY <1>8, <1>9, <1>10

-----------------------------------------------------------------------------
(* The invariant, and that every step keeps it.                            *)

\* An event waits for in_process.
Pend == IF pc # "read" /\ event.key # "PAUSEBREAK" THEN 1 ELSE 0

\* The modifiers of the keys in S.
FlagsOf(S) == {FlagOf[k] : k \in S \cap DOMAIN FlagOf}

\* The pieces toks are what is between the driver, at a, and the keys, at z; base events
\* have reached in_process.
Sound(toks, a, z, base) ==
  /\ Chain(toks, a, z, got \o queue \o line, typed, base)
  /\ a.mods = mods /\ a.locks = locks /\ a.nr = base + Pend
  /\ z.locks = toggled
  /\ "R_ALT" \notin Keys => z.mods = FlagsOf(held)
  /\ Pend = 1 => typed # <<>>
  /\ Pend = 1 /\ "R_ALT" \notin Keys => typed[1] = event
  /\ got # <<>> => toks # <<>> /\ Len(got) < Len(toks[1].code)
  /\ pc # "read" => got = <<>>

\* Until a byte is dropped, there are such pieces.
SoundInv == ~dropped => \E toks, a, z, base : Sound(toks, a, z, base)

LEMMA ConcatOne ==
  ASSUME NEW x
  PROVE  <<>> \o <<x>> = <<x>> /\ <<x>> \o <<x>> = <<x, x>>
<1>1. <<x>> \in Seq({x}) /\ Len(<<x>>) = 1 /\ <<x>>[1] = x /\ <<>> \in Seq({x})
  OBVIOUS
<1>2. <<x, x>> \in Seq({x}) /\ Len(<<x, x>>) = 2 /\ <<x, x>>[1] = x /\ <<x, x>>[2] = x
  OBVIOUS
<1> DEFINE one == <<x>>
           two == <<x, x>>
<1> HIDE DEF one, two
<1>3. one \o one \in Seq({x}) /\ Len(one \o one) = 2 /\ \A i \in 1 .. 2 : (one \o one)[i] = x
  BY <1>1 DEF one
<1>4. \A i \in 1 .. 2 : two[i] = x
  BY <1>2 DEF two
<1>5. one \o one = two
  BY <1>2, <1>3, <1>4, SeqEqual DEF two
<1>6. <<>> \o one = one
  BY <1>1, ConcatEmptySeq DEF one
<1> QED BY <1>5, <1>6 DEF one, two

\* A byte goes from one sequence to the other and the stream stays.
LEMMA MoveOne ==
  ASSUME NEW S, NEW s \in Seq(S), NEW t \in Seq(S), t # <<>>
  PROVE  Append(s, Head(t)) \o Tail(t) = s \o t
<1>1. /\ Head(t) = t[1] /\ Head(t) \in S /\ Tail(t) \in Seq(S) /\ Len(Tail(t)) = Len(t) - 1
      /\ \A i \in 1 .. Len(Tail(t)) : Tail(t)[i] = t[i + 1]
  BY HeadTailProperties
<1> DEFINE h == Head(t)
           r == Tail(t)
           l == Append(s, h)
<1> HIDE DEF h, r
<1>2. /\ l \in Seq(S) /\ Len(l) = Len(s) + 1 /\ l[Len(s) + 1] = h /\ \A i \in 1 .. Len(s) : l[i] = s[i]
  BY <1>1 DEF h
<1> HIDE DEF l
<1>3. l \o r \in Seq(S) /\ s \o t \in Seq(S) /\ Len(l \o r) = Len(s \o t)
  BY <1>1, <1>2 DEF r
<1>4. ASSUME NEW i \in 1 .. Len(s \o t) PROVE (l \o r)[i] = (s \o t)[i]
  BY <1>1, <1>2 DEF r, h
<1>5. l \o r = s \o t
  BY <1>3, <1>4, SeqEqual
<1> QED BY <1>5 DEF l, h, r

\* What TypeOK says, in the form it is needed below.
LEMMA Types ==
  ASSUME DriverInv
  PROVE  /\ got \in Seq(Bytes) /\ queue \in Seq(Bytes) /\ line \in Seq(Bytes)
         /\ typed \in Seq(Events) /\ mods \in SUBSET Modifiers /\ locks \in SUBSET Locks
         /\ toggled \in SUBSET Locks /\ held \subseteq Keys /\ event \in Events
BY DEF DriverInv, TypeOK, Bytes

\* SoundInv holds at first, and each step keeps it.
LEMMA InitSound == Init => SoundInv
<1> SUFFICES ASSUME Init PROVE \E toks, a, z, base : Sound(toks, a, z, base)
  BY DEF SoundInv
<1> DEFINE a == [mods |-> {}, locks |-> {"num_lock"}, nr |-> 0, at |-> 0]
<1>1. a \in States
  BY DEF States, Locks, Modifiers
<1>2. Chain(<<>>, a, a, <<>>, <<>>, 0)
  BY <1>1, ChainEmpty
<1>3. \E toks, z : Chain(toks, a, z, line, <<>>, 0) /\ z.mods = {} /\ z.locks = {"num_lock"}
  <2>1. CASE line = <<>>
    BY <1>2, <2>1
  <2>2. /\ After(a, 1).mods = {} /\ After(a, 1).locks = {"num_lock"}
        /\ After(After(a, 1), 1).mods = {} /\ After(After(a, 1), 1).locks = {"num_lock"}
    BY DEF After
  <2>3. /\ <<>> \o <<KB_ACK>> = <<KB_ACK>>
        /\ <<KB_ACK>> \o <<KB_ACK>> = <<KB_ACK, KB_ACK>>
    BY ConcatOne
  <2> HIDE DEF a
  <2>4a. PICK toks1 : Chain(toks1, a, After(a, 1), <<>> \o <<KB_ACK>>, <<>>, 0)
    BY <1>2, ChainAck
  <2>4. Chain(toks1, a, After(a, 1), <<KB_ACK>>, <<>>, 0)
    BY <2>3, <2>4a
  <2>5. PICK toks2 : Chain(toks2, a, After(After(a, 1), 1), <<KB_ACK>> \o <<KB_ACK>>, <<>>, 0)
    BY <2>4, ChainAck
  <2>6. CASE line = <<KB_ACK>>
    BY <2>2, <2>4, <2>6
  <2>7. CASE line = <<KB_ACK, KB_ACK>>
    <3>1. line = <<KB_ACK>> \o <<KB_ACK>>
      BY <2>3, <2>7
    <3> QED BY <2>2, <2>5, <3>1
  <2> QED BY <2>1, <2>6, <2>7 DEF Init
<1>4. /\ got = <<>> /\ queue = <<>> /\ typed = <<>> /\ mods = {} /\ locks = {"num_lock"} /\ toggled = {"num_lock"}
      /\ held = {} /\ pc = "read" /\ line \in Seq(Bytes)
  BY InitDriverInv, Types DEF Init
<1>5. got \o queue \o line = line
  BY <1>4
<1>6. FlagsOf(held) = {} /\ Pend = 0
  BY <1>4 DEF FlagsOf, Pend
<1>7. a.mods = {} /\ a.locks = {"num_lock"} /\ a.nr = 0 + 0
  OBVIOUS
<1> HIDE DEF a
<1>8. PICK toks, z : Chain(toks, a, z, line, <<>>, 0) /\ z.mods = {} /\ z.locks = {"num_lock"}
  BY <1>3
<1>9. Sound(toks, a, z, 0)
  BY <1>4, <1>5, <1>6, <1>7, <1>8 DEF Sound
<1> QED BY <1>9

\* The keys that are modifiers, and their flags.
LEMMA FlagFacts ==
  /\ DOMAIN FlagOf = {"L_SHFT", "R_SHFT", "L_CTRL", "R_CTRL", "L_ALT", "R_ALT"}
  /\ \A k, m \in DOMAIN FlagOf : FlagOf[k] = FlagOf[m] => k = m
  /\ \A k \in DOMAIN FlagOf : FlagOf[k] \in {"shift_l", "shift_r"} <=> k \in {"L_SHFT", "R_SHFT"}
  /\ \A k \in DOMAIN FlagOf \ {"R_ALT"} : ModifierOf[ValueOf[k]] = FlagOf[k]
<1>1. DOMAIN FlagOf = {"L_SHFT", "R_SHFT", "L_CTRL", "R_CTRL", "L_ALT", "R_ALT"}
  BY DEF FlagOf
<1>2. /\ FlagOf["L_SHFT"] = "shift_l" /\ FlagOf["R_SHFT"] = "shift_r" /\ FlagOf["L_CTRL"] = "ctrl_l"
      /\ FlagOf["R_CTRL"] = "ctrl_r" /\ FlagOf["L_ALT"] = "alt_l" /\ FlagOf["R_ALT"] = "alt_r"
  BY DEF FlagOf
<1>3. \A k, m \in DOMAIN FlagOf : FlagOf[k] = FlagOf[m] => k = m
  BY <1>1, <1>2
<1>4. \A k \in DOMAIN FlagOf : FlagOf[k] \in {"shift_l", "shift_r"} <=> k \in {"L_SHFT", "R_SHFT"}
  BY <1>1, <1>2
<1>5. \A k \in DOMAIN FlagOf \ {"R_ALT"} : ModifierOf[ValueOf[k]] = FlagOf[k]
  BY <1>1, <1>2 DEF ModifierOf, ValueOf
<1> QED BY <1>1, <1>3, <1>4, <1>5

\* One key more or less down is one flag more or less.
LEMMA FlagsChange ==
  ASSUME NEW S, NEW k, k # "R_ALT"
  PROVE  /\ FlagsOf(S \cup {k}) = FlagsOf(S) \cup Flags(k)
         /\ FlagsOf(S \ {k}) = FlagsOf(S) \ Flags(k)
<1>1. CASE k \in DOMAIN FlagOf
  <2>1. Flags(k) = {FlagOf[k]}
    BY <1>1, FlagFacts DEF Flags
  <2>2. \A m \in DOMAIN FlagOf : FlagOf[k] = FlagOf[m] => k = m
    BY <1>1, FlagFacts
  <2> QED BY <1>1, <2>1, <2>2 DEF FlagsOf
<1>2. CASE k \notin DOMAIN FlagOf
  BY <1>2 DEF FlagsOf, Flags
<1> QED BY <1>1, <1>2

\* Meaning is EventOf the locks as pressed and the flags of the keys down.
LEMMA MeaningIs ==
  ASSUME NEW k, NEW down
  PROVE  Meaning(k, down) = EventOf(k, toggled, FlagsOf(down))
<1> DEFINE shift == down \cap {"L_SHFT", "R_SHFT"} # {}
           flagged == FlagsOf(down) \cap {"shift_l", "shift_r"} # {}
<1>1. shift = flagged
  <2>1. shift => flagged
    BY FlagFacts DEF FlagsOf
  <2>2. flagged => shift
    BY FlagFacts DEF FlagsOf
  <2> QED BY <2>1, <2>2
<1>2. Meaning(k, down) =
        [key |-> CASE k = "A" -> IF shift # ("caps_lock" \in toggled) THEN "A" ELSE "a"
                   [] k = "KP_8" -> IF shift \/ "num_lock" \in toggled THEN "8" ELSE "UP"
                   [] OTHER -> ValueOf[k],
         pad |-> k = "KP_EN" \/ (k = "KP_8" /\ ~shift), flags |-> FlagsOf(down)]
  BY DEF Meaning, FlagsOf
<1>3. EventOf(k, toggled, FlagsOf(down)) =
        [key |-> CASE k = "A" -> IF flagged # ("caps_lock" \in toggled) THEN "A" ELSE "a"
                   [] k = "KP_8" -> IF flagged \/ "num_lock" \in toggled THEN "8" ELSE "UP"
                   [] OTHER -> ValueOf[k],
         pad |-> k = "KP_EN" \/ (k = "KP_8" /\ ~flagged), flags |-> FlagsOf(down)]
  BY DEF EventOf
<1> HIDE DEF shift, flagged
<1> QED BY <1>1, <1>2, <1>3

LEMMA EventOfType ==
  ASSUME NEW k \in Keys, k # "PAUSE", NEW locked, NEW flags \in SUBSET Modifiers
  PROVE  EventOf(k, locked, flags) \in Events
<1> DEFINE shift == flags \cap {"shift_l", "shift_r"} # {}
           key == CASE k = "A" -> IF shift # ("caps_lock" \in locked) THEN "A" ELSE "a"
                    [] k = "KP_8" -> IF shift \/ "num_lock" \in locked THEN "8" ELSE "UP"
                    [] OTHER -> ValueOf[k]
<1>1. key \in KeyValues
  <2>1. k \notin {"A", "KP_8"} => ValueOf[k] \in KeyValues
    BY KeysAreKnown DEF KnownKeys, ValueOf, KeyValues, ModifierOf, LockOf
  <2>2. {"A", "a", "8", "UP"} \subseteq KeyValues
    BY DEF KeyValues
  <2> QED BY <2>1, <2>2
<1>2. EventOf(k, locked, flags)
        = [key |-> key, pad |-> k = "KP_EN" \/ (k = "KP_8" /\ ~shift), flags |-> flags]
  BY DEF EventOf
<1> HIDE DEF key, shift
<1> QED BY <1>1, <1>2 DEF Events

\* The piece a press puts on its way.
LEMMA MakePiece ==
  ASSUME NEW k \in Keys, NEW z \in States
  PROVE  \E t \in Pieces : t.from = z /\ IsMake(t, k)
<1> DEFINE flags == z.mods \cup Flags(k)
           s == [mods |-> flags, locks |-> LockPressed(k, z.locks),
                 nr |-> z.nr + IF k = "PAUSE" THEN 0 ELSE 1, at |-> z.at + Len(MakeCode[k])]
           e == IF k = "PAUSE" THEN NoEvent ELSE EventOf(k, z.locks, flags)
           t == [code |-> MakeCode[k], from |-> z, to |-> s, event |-> e]
<1>1. z.mods \in SUBSET Modifiers /\ z.locks \in SUBSET Locks /\ z.nr \in Int /\ z.at \in Int
  BY DEF States
<1>2. MakeCode[k] \in Seq(Bytes) /\ Len(MakeCode[k]) \in Nat
  BY KeysAreKnown, CodesAreBytes
<1>3. flags \in SUBSET Modifiers
  <2>1. Flags(k) \subseteq Modifiers
    BY DEF Flags, FlagOf, ValueOf, ModifierOf, Modifiers
  <2> QED BY <1>1, <2>1
<1>4. LockPressed(k, z.locks) \in SUBSET Locks
  BY <1>1 DEF LockPressed, Flip, Locks
<1>5. e \in Events
  <2>1. NoEvent \in Events
    BY DEF NoEvent, Events, KeyValues
  <2> HIDE DEF flags
  <2>2. k # "PAUSE" => EventOf(k, z.locks, flags) \in Events
    BY <1>3, EventOfType
  <2> QED BY <2>1, <2>2
<1>6. s \in States
  <2> HIDE DEF flags
  <2>1. z.nr + (IF k = "PAUSE" THEN 0 ELSE 1) \in Int /\ z.at + Len(MakeCode[k]) \in Int
    BY <1>1, <1>2
  <2> QED BY <1>3, <1>4, <2>1 DEF States
<1>7. /\ s.mods = flags /\ s.locks = LockPressed(k, z.locks) /\ s.at = z.at + Len(MakeCode[k])
      /\ s.nr = z.nr + IF k = "PAUSE" THEN 0 ELSE 1
  OBVIOUS
<1>8. k # "PAUSE" => e = EventOf(k, z.locks, flags)
  OBVIOUS
<1> HIDE DEF s, e
<1>9. t.code = MakeCode[k] /\ t.from = z /\ t.to = s /\ t.event = e
  OBVIOUS
<1>10. t \in [code : Seq(Bytes), from : States, to : States, event : Events]
  BY <1>2, <1>5, <1>6
<1> HIDE DEF t
<1>11. IsMake(t, k)
  BY <1>7, <1>8, <1>9 DEF IsMake
<1>12. t \in Pieces
  BY <1>7, <1>9, <1>10, <1>11 DEF Pieces
<1> QED BY <1>9, <1>11, <1>12

LEMMA BreakPiece ==
  ASSUME NEW k \in Keys, k # "PAUSE", NEW z \in States
  PROVE  \E t \in Pieces : t.from = z /\ IsBreak(t, k)
<1> DEFINE s == [mods |-> z.mods \ Flags(k), locks |-> z.locks, nr |-> z.nr, at |-> z.at + Len(BreakCode(k))]
           t == [code |-> BreakCode(k), from |-> z, to |-> s, event |-> NoEvent]
<1>1. z.mods \in SUBSET Modifiers /\ z.locks \in SUBSET Locks /\ z.nr \in Int /\ z.at \in Int
  BY DEF States
<1>2. BreakCode(k) \in Seq(Bytes) /\ Len(BreakCode(k)) \in Nat
  BY KeysAreKnown, CodesAreBytes
<1>3. s \in States
  BY <1>1, <1>2 DEF States
<1>4. s.mods = z.mods \ Flags(k) /\ s.locks = z.locks /\ s.nr = z.nr /\ s.at = z.at + Len(BreakCode(k))
  OBVIOUS
<1>5. NoEvent \in Events
  BY DEF NoEvent, Events, KeyValues
<1> HIDE DEF s
<1>6. t.code = BreakCode(k) /\ t.from = z /\ t.to = s
  OBVIOUS
<1>7. t \in [code : Seq(Bytes), from : States, to : States, event : Events]
  BY <1>2, <1>3, <1>5
<1> HIDE DEF t
<1>8. IsBreak(t, k)
  BY <1>4, <1>6 DEF IsBreak
<1>9. t \in Pieces
  BY <1>4, <1>6, <1>7, <1>8 DEF Pieces
<1> QED BY <1>6, <1>8, <1>9

LEMMA AppendFirst ==
  ASSUME NEW S, NEW s \in Seq(S), NEW x \in S
  PROVE  Append(s, x) # <<>> /\ (s # <<>> => Append(s, x)[1] = s[1])
BY SMTT(30)

LEMMA Assoc ==
  ASSUME NEW S
  PROVE  \A s, t, u \in Seq(S) : s \o t \o u = s \o (t \o u)
BY ConcatAssociative

\* The stream grows where the keyboard writes.
LEMMA StreamGrows ==
  ASSUME DriverInv, NEW c \in Seq(Bytes), UNCHANGED <<got, queue>>, line' = line \o c
  PROVE  (got \o queue \o line)' = (got \o queue \o line) \o c
<1>1. got \in Seq(Bytes) /\ queue \in Seq(Bytes) /\ line \in Seq(Bytes) /\ got \o queue \in Seq(Bytes)
  BY Types
<1>2. (got \o queue) \o (line \o c) = ((got \o queue) \o line) \o c
  BY <1>1, ConcatAssociative, SMTT(30)
<1> QED BY <1>2

LEMMA PressSound ==
  ASSUME DriverInv, SoundInv, NEW k \in Keys, Press(k)
  PROVE  SoundInv'
<1> SUFFICES ASSUME ~dropped PROVE \E toks, a, z, base : Sound(toks, a, z, base)'
  BY DEF SoundInv, Press
<1>1. /\ UNCHANGED <<queue, got, mods, locks, event, pc>>
      /\ held' = held \cup {k} /\ line' = line \o MakeCode[k]
      /\ typed' = IF k = "PAUSE" THEN typed ELSE Append(typed, Meaning(k, held'))
      /\ toggled' = LockPressed(k, toggled)
  BY DEF Press, driver, LockPressed
<1>2. PICK toks, a, z, base : Sound(toks, a, z, base)
  BY DEF SoundInv
<1>3. Chain(toks, a, z, got \o queue \o line, typed, base) /\ z \in States
  BY <1>2 DEF Sound, Chain
<1>4. PICK t \in Pieces : t.from = z /\ IsMake(t, k)
  BY <1>3, MakePiece
<1>5. /\ t.code = MakeCode[k] /\ t.to.mods = z.mods \cup Flags(k) /\ t.to.locks = LockPressed(k, z.locks)
      /\ t.to.nr = z.nr + IF k = "PAUSE" THEN 0 ELSE 1
      /\ k # "PAUSE" => t.event = EventOf(k, z.locks, t.to.mods)
  BY <1>4 DEF IsMake
<1>6. z.locks = toggled /\ ("R_ALT" \notin Keys => z.mods = FlagsOf(held))
  BY <1>2 DEF Sound
<1>7. "R_ALT" \notin Keys => t.to.mods = FlagsOf(held')
  BY <1>1, <1>5, <1>6, FlagsChange
<1>8. /\ typed \in Seq(Events) /\ typed' \in Seq(Events) /\ z.nr \in Int
  <2>1. DriverInv'
    BY PressType
  <2> QED BY <1>3, <2>1, StateType DEF DriverInv, TypeOK
<1>9. Owes(t) <=> k # "PAUSE"
  BY <1>4, <1>5, <1>8 DEF Owes
<1>10. ~Owes(t) => typed' = typed
  BY <1>1, <1>9
<1>11. Owes(t) => /\ Len(typed') = Len(typed) + 1
                  /\ \A j \in 1 .. Len(typed) : typed'[j] = typed[j]
                  /\ "R_ALT" \notin Keys => typed'[Len(typed) + 1] = t.event
  <2> SUFFICES ASSUME k # "PAUSE"
               PROVE  /\ Len(typed') = Len(typed) + 1
                      /\ \A j \in 1 .. Len(typed) : typed'[j] = typed[j]
                      /\ "R_ALT" \notin Keys => typed'[Len(typed) + 1] = t.event
    BY <1>9
  <2> DEFINE m == Meaning(k, held')
  <2>1. typed' = Append(typed, m)
    BY <1>1
  <2>2. m = EventOf(k, toggled, FlagsOf(held'))
    BY MeaningIs
  <2> HIDE DEF m
  <2>3. /\ Len(typed') = Len(typed) + 1 /\ typed'[Len(typed) + 1] = m
        /\ \A j \in 1 .. Len(typed) : typed'[j] = typed[j]
    BY <1>8, <2>1
  <2>4. "R_ALT" \notin Keys => t.event = m
    BY <1>5, <1>6, <1>7, <2>2
  <2> QED BY <2>3, <2>4
<1>12. Chain(Append(toks, t), a, t.to, (got \o queue \o line) \o t.code, typed', base)
  BY <1>3, <1>4, <1>8, <1>10, <1>11, ChainAppend
<1>13. (got \o queue \o line)' = (got \o queue \o line) \o t.code
  BY <1>1, <1>4, <1>5, StreamGrows, CodeOfPiece
<1>14. Chain(Append(toks, t), a, t.to, (got \o queue \o line)', typed', base)
  BY <1>12, <1>13
<1>15. toks \in Seq(Pieces) /\ Append(toks, t) # <<>> /\ (toks # <<>> => Append(toks, t)[1] = toks[1])
  BY <1>3, <1>4, AppendFirst DEF Chain
<1>16. Pend' = Pend /\ (Pend = 1 => typed # <<>> /\ typed' # <<>> /\ typed'[1] = typed[1])
  <2>1. Pend' = Pend
    BY <1>1 DEF Pend
  <2>2. typed # <<>> => typed' # <<>> /\ typed'[1] = typed[1]
    BY <1>8, <1>9, <1>10, <1>11
  <2> QED BY <1>2, <2>1, <2>2 DEF Sound
<1>17. Sound(Append(toks, t), a, t.to, base)'
  BY <1>1, <1>2, <1>5, <1>6, <1>7, <1>14, <1>15, <1>16 DEF Sound
<1> QED BY <1>17

LEMMA ReleaseSound ==
  ASSUME DriverInv, SoundInv, NEW k \in Keys, Release(k)
  PROVE  SoundInv'
<1> SUFFICES ASSUME ~dropped PROVE \E toks, a, z, base : Sound(toks, a, z, base)'
  BY DEF SoundInv, Release, history
<1>1. /\ UNCHANGED <<queue, got, mods, locks, event, pc, typed, toggled>>
      /\ held' = held \ {k} /\ line' = line \o BreakCode(k)
  BY DEF Release, driver, history
<1>2. PICK toks, a, z, base : Sound(toks, a, z, base)
  BY DEF SoundInv
<1>3. Chain(toks, a, z, got \o queue \o line, typed, base) /\ z \in States
  BY <1>2 DEF Sound, Chain
<1>4. "R_ALT" \notin Keys => FlagsOf(held') = FlagsOf(held) \ Flags(k)
  BY <1>1, FlagsChange
<1>5. Pend' = Pend
  BY <1>1 DEF Pend
<1>6. CASE k = "PAUSE"
  <2>1. BreakCode(k) = <<>>
    BY <1>6, BreakCodes
  <2>2. line' = line
    BY <1>1, <2>1, Types, ConcatEmptySeq
  <2>3. FlagsOf(held') = FlagsOf(held)
    BY <1>1, <1>6, FlagFacts DEF FlagsOf
  <2>4. Sound(toks, a, z, base)'
    BY <1>1, <1>2, <1>5, <2>2, <2>3 DEF Sound
  <2> QED BY <2>4
<1>7. CASE k # "PAUSE"
  <2>1. PICK t \in Pieces : t.from = z /\ IsBreak(t, k)
    BY <1>3, <1>7, BreakPiece
  <2>2. /\ t.code = BreakCode(k) /\ t.to.mods = z.mods \ Flags(k) /\ t.to.locks = z.locks
        /\ ~Owes(t)
    BY <2>1 DEF IsBreak, Owes
  <2>3. Chain(Append(toks, t), a, t.to, (got \o queue \o line) \o t.code, typed, base)
    BY <1>3, <2>1, <2>2, Types, ChainAppend
  <2>4. (got \o queue \o line)' = (got \o queue \o line) \o t.code
    BY <1>1, <2>1, <2>2, StreamGrows, CodeOfPiece
  <2>5. Chain(Append(toks, t), a, t.to, (got \o queue \o line)', typed', base)
    BY <1>1, <2>3, <2>4
  <2>6. toks \in Seq(Pieces) /\ Append(toks, t) # <<>> /\ (toks # <<>> => Append(toks, t)[1] = toks[1])
    BY <1>3, <2>1, AppendFirst DEF Chain
  <2>7. Sound(Append(toks, t), a, t.to, base)'
    BY <1>1, <1>2, <1>4, <1>5, <2>2, <2>5, <2>6 DEF Sound
  <2> QED BY <2>7
<1> QED BY <1>6, <1>7

LEMMA KeyboardObeysSound ==
  ASSUME DriverInv, SoundInv, KeyboardObeys
  PROVE  SoundInv'
<1> SUFFICES ASSUME ~dropped PROVE \E toks, a, z, base : Sound(toks, a, z, base)'
  BY DEF SoundInv, KeyboardObeys, history
<1>1. /\ UNCHANGED <<held, queue, got, mods, locks, event, pc, typed, toggled>>
      /\ line' = line \o <<KB_ACK>>
  <2>1. line' = Append(line, KB_ACK)
    BY DEF KeyboardObeys
  <2>2. line \in Seq(Bytes) /\ KB_ACK \in Bytes
    BY Types DEF KB_ACK, Bytes
  <2> QED BY <2>1, <2>2, AppendIsConcat DEF KeyboardObeys, driver, history
<1>2. PICK toks, a, z, base : Sound(toks, a, z, base)
  BY DEF SoundInv
<1>3. Chain(toks, a, z, got \o queue \o line, typed, base)
  BY <1>2 DEF Sound
<1>4. <<KB_ACK>> \in Seq(Bytes)
  BY DEF KB_ACK, Bytes
<1>5. (got \o queue \o line)' = (got \o queue \o line) \o <<KB_ACK>>
  BY <1>1, <1>4, StreamGrows
<1>6. PICK toks2 : /\ Chain(toks2, a, After(z, 1), (got \o queue \o line) \o <<KB_ACK>>, typed, base)
                   /\ toks # <<>> => toks2 # <<>> /\ toks2[1] = toks[1]
  BY <1>3, ChainAck
<1>7. Pend' = Pend /\ After(z, 1).mods = z.mods /\ After(z, 1).locks = z.locks
  BY <1>1 DEF Pend, After
<1>8. Sound(toks2, a, After(z, 1), base)'
  BY <1>1, <1>2, <1>5, <1>6, <1>7 DEF Sound
<1> QED BY <1>8

LEMMA KeyboardHandlerSound ==
  ASSUME DriverInv, SoundInv, keyboard_handler
  PROVE  SoundInv'
<1> SUFFICES ASSUME ~dropped' PROVE \E toks, a, z, base : Sound(toks, a, z, base)'
  BY DEF SoundInv
<1>1. /\ UNCHANGED <<held, got, mods, locks, event, pc, typed, toggled>> /\ ~dropped
      /\ line # <<>> /\ line' = Tail(line) /\ queue' = Append(queue, Head(line))
  <2>1. ~dropped /\ Len(queue) # KB_IN_BYTES
    BY DEF keyboard_handler
  <2>2. Len(queue) < KB_IN_BYTES
    BY <2>1, KeyboardAssumption DEF DriverInv, TypeOK
  <2> QED BY <2>1, <2>2 DEF keyboard_handler, driver
<1>2. PICK toks, a, z, base : Sound(toks, a, z, base)
  BY <1>1 DEF SoundInv
<1>3. (got \o queue \o line)' = got \o queue \o line
  <2>1. got \in Seq(Bytes) /\ queue \in Seq(Bytes) /\ line \in Seq(Bytes)
    BY Types
  <2>2. queue' \in Seq(Bytes) /\ line' \in Seq(Bytes)
    BY <1>1, <2>1, HeadTailProperties, AppendProperties
  <2>3. got \o queue' \o line' = got \o (queue' \o line')
    BY <2>1, <2>2, Assoc, SMTT(30)
  <2>4. got \o queue \o line = got \o (queue \o line)
    BY <2>1, Assoc, SMTT(30)
  <2>5. queue' \o line' = queue \o line
    BY <1>1, <2>1, MoveOne
  <2> QED BY <1>1, <2>3, <2>4, <2>5, Zenon
<1>4. Sound(toks, a, z, base)'
  BY <1>1, <1>2, <1>3 DEF Sound, Pend
<1> QED BY <1>4

LEMMA KeyboardReadSound ==
  ASSUME DriverInv, SoundInv, keyboard_read
  PROVE  SoundInv'
<1> SUFFICES ASSUME ~dropped PROVE \E toks, a, z, base : Sound(toks, a, z, base)'
  BY DEF SoundInv, keyboard_read, history
<1> DEFINE bytes == Append(got, Head(queue))
           rest == Tail(queue) \o line
<1>1. /\ UNCHANGED <<held, line, typed, toggled>> /\ pc = "read"
      /\ queue # <<>> /\ queue' = Tail(queue)
      /\ MustGetMore(bytes) => got' = bytes /\ UNCHANGED <<mods, locks, event, pc>>
      /\ ~MustGetMore(bytes) => got' = <<>> /\ Analyze(bytes)
  BY DEF keyboard_read, keyboard, history
<1>2. PICK toks, a, z, base : Sound(toks, a, z, base)
  BY DEF SoundInv
<1>3. got \in Seq(Bytes) /\ queue \in Seq(Bytes) /\ line \in Seq(Bytes) /\ typed \in Seq(Events)
  BY Types
<1>4. /\ Head(queue) \in Bytes /\ Tail(queue) \in Seq(Bytes) /\ bytes \in Seq(Bytes)
      /\ Len(bytes) = Len(got) + 1 /\ rest \in Seq(Bytes)
  BY <1>1, <1>3, HeadTailProperties, AppendProperties
<1>5. got \o queue \o line = bytes \o Tail(queue) \o line /\ got \o queue \o line = bytes \o rest
  <2>1. bytes \o Tail(queue) = got \o queue
    BY <1>1, <1>3, MoveOne
  <2> HIDE DEF bytes
  <2>2. bytes \o Tail(queue) \o line = bytes \o (Tail(queue) \o line)
    BY <1>3, <1>4, Assoc, SMTT(30)
  <2> QED BY <2>1, <2>2
<1> HIDE DEF bytes, rest
<1> DEFINE stream == got \o queue \o line
<1>6. /\ Chain(toks, a, z, stream, typed, base)
      /\ a.mods = mods /\ a.locks = locks /\ a.nr = base + 0 /\ z.locks = toggled
      /\ "R_ALT" \notin Keys => z.mods = FlagsOf(held)
      /\ got # <<>> => toks # <<>> /\ Len(got) < Len(toks[1].code)
  BY <1>1, <1>2 DEF Sound, Pend
<1>7. /\ stream = bytes \o rest /\ stream \in Seq(Bytes) /\ Len(stream) = Len(bytes) + Len(rest)
      /\ \A i \in 1 .. Len(bytes) : stream[i] = bytes[i]
  <2>1. bytes \o rest \in Seq(Bytes) /\ Len(bytes \o rest) = Len(bytes) + Len(rest)
    BY <1>4, ConcatProperties
  <2>2. \A i \in 1 .. Len(bytes) : (bytes \o rest)[i] = bytes[i]
    BY <1>4
  <2>3. stream = bytes \o rest
    BY <1>5
  <2> HIDE DEF stream
  <2> QED BY <2>1, <2>2, <2>3, Zenon
<1> HIDE DEF stream
<1>8. toks # <<>>
  <2> SUFFICES ASSUME toks = <<>> PROVE FALSE
    OBVIOUS
  <2>1. a = z /\ z.at = a.at + Len(stream) /\ a.at \in Int
    BY <1>6, StateType DEF Chain
  <2> QED BY <1>3, <1>4, <1>7, <2>1
<1>9. PICK t \in Pieces : t = toks[1]
  BY <1>6, <1>8 DEF Chain
<1>10. /\ t.from = a /\ t.code \in Seq(Bytes) /\ Len(t.code) \in 1 .. 6 /\ a.at \in Int /\ a.nr \in Int
  BY <1>6, <1>8, <1>9, PieceType, StateType DEF Chain
<1>11. Fits(t, a, z, stream, typed, base)
  <2>1. 1 \in 1 .. Len(toks)
    BY <1>6, <1>8 DEF Chain
  <2> QED BY <1>6, <1>9, <2>1 DEF Chain
<1>12. Len(bytes) \in 1 .. Len(t.code)
  <2>1. Len(got) \in Nat /\ Len(t.code) \in Nat
    BY <1>3, <1>10
  <2>2. Len(got) < Len(t.code)
    <3>1. CASE got = <<>>
      <4>1. Len(got) = 0
        BY <3>1
      <4>2. Len(t.code) \in 1 .. 6
        BY <1>10
      <4>3. \A m \in 1 .. 6 : 0 < m
        OBVIOUS
      <4> QED BY <4>1, <4>2, <4>3, Zenon
    <3>2. CASE got # <<>>
      BY <1>6, <1>9, <3>2
    <3> QED BY <3>1, <3>2
  <2> QED BY <1>4, <2>1, <2>2
<1>13. \A i \in 1 .. Len(bytes) : bytes[i] = t.code[i]
  <2>1. \A j \in 1 .. Len(t.code) : stream[t.from.at - a.at + j] = t.code[j]
    BY <1>11 DEF Fits
  <2>2. t.from.at - a.at = 0
    BY <1>10
  <2>3. \A j \in 1 .. Len(t.code) : stream[j] = t.code[j]
    BY <2>1, <2>2
  <2> QED BY <1>7, <1>10, <1>12, <2>3, SMTT(30)
<1>14. MustGetMore(bytes) <=> Len(bytes) < Len(t.code)
  BY <1>4, <1>12, <1>13, ReadsToTheEnd
<1>15. CASE MustGetMore(bytes)
  <2>1. /\ got' = bytes /\ UNCHANGED <<mods, locks, event, pc>> /\ (got \o queue \o line)' = stream
    BY <1>1, <1>5, <1>15 DEF stream
  <2>2. Pend' = 0
    BY <1>1, <2>1 DEF Pend
  <2>3. Len(got') < Len(toks[1].code)
    BY <1>9, <1>14, <1>15, <2>1
  <2>4. Chain(toks, a, z, (got \o queue \o line)', typed', base)
    BY <1>1, <1>6, <2>1
  <2>5. pc' = "read" /\ a.mods = mods' /\ a.locks = locks' /\ z.locks = toggled' /\ held' = held
    BY <1>1, <1>6, <2>1
  <2>6. Sound(toks, a, z, base)'
    BY <1>6, <1>8, <2>2, <2>3, <2>4, <2>5 DEF Sound
  <2> QED BY <2>6
<1>16. CASE ~MustGetMore(bytes)
  <2>1. bytes = t.code
    BY <1>4, <1>10, <1>12, <1>13, <1>14, <1>16, SeqEqual
  <2>2. got' = <<>> /\ Analyze(t.code)
    BY <1>1, <1>16, <2>1
  <2>3. /\ mods' = t.to.mods /\ locks' = t.to.locks
        /\ Owes(t) <=> pc' # "read" /\ event'.key # "PAUSEBREAK"
        /\ Owes(t) => event' = t.event
    BY <1>1, <1>6, <1>10, <2>2, PieceRead
  <2>4. (got \o queue \o line)' = rest
    BY <1>1, <1>3, <1>4, <2>2, ConcatEmptySeq DEF rest
  <2>5. Chain(Tail(toks), t.to, z, rest, typed, base)
    BY <1>4, <1>6, <1>7, <1>8, <1>9, <2>1, ChainTail
  <2>6. Chain(Tail(toks), t.to, z, (got \o queue \o line)', typed', base)
    BY <1>1, <2>4, <2>5
  <2>7. (Owes(t) <=> Pend' = 1) /\ (Pend' = 0 \/ Pend' = 1)
    BY <2>3 DEF Pend
  <2>8. t.to.nr = base + Pend'
    <3>1. t.to.nr = t.from.nr \/ t.to.nr = t.from.nr + 1
      BY PieceType
    <3>2. base \in Int /\ t.from.nr = base
      BY <1>6, <1>10 DEF Chain
    <3>3. CASE Owes(t)
      BY <2>7, <3>1, <3>2, <3>3 DEF Owes
    <3>4. CASE ~Owes(t)
      BY <2>7, <3>2, <3>4 DEF Owes
    <3> QED BY <3>3, <3>4
  <2>9. ASSUME Owes(t) PROVE typed # <<>> /\ ("R_ALT" \notin Keys => typed[1] = event')
    <3>1. /\ t.to.nr = base + 1 /\ base \in Int /\ z.nr = base + Len(typed) /\ t.to.nr <= z.nr
      BY <1>6, <1>11, <2>7, <2>8, <2>9 DEF Chain, Fits
    <3>2. Len(typed) \in Nat /\ Len(typed) >= 1
      BY <1>3, <3>1
    <3>3. t.to.nr - base = 1
      BY <3>1
    <3>4. "R_ALT" \notin Keys => typed[1] = t.event
      BY <1>11, <2>9, <3>3 DEF Fits
    <3> QED BY <2>3, <2>9, <3>2, <3>4
  <2>10. Sound(Tail(toks), t.to, z, base)'
    BY <1>1, <1>6, <2>2, <2>3, <2>6, <2>7, <2>8, <2>9 DEF Sound
  <2> QED BY <2>10
<1> QED BY <1>15, <1>16

LEMMA SetLedsSound ==
  ASSUME DriverInv, SoundInv, set_leds
  PROVE  SoundInv'
<1> SUFFICES ASSUME ~dropped PROVE \E toks, a, z, base : Sound(toks, a, z, base)'
  BY DEF SoundInv, set_leds, history
<1>1. /\ UNCHANGED <<held, line, queue, got, mods, locks, event, typed, toggled>>
      /\ pc # "read" /\ pc' # "read"
  BY DEF set_leds, history
<1>2. PICK toks, a, z, base : Sound(toks, a, z, base)
  BY DEF SoundInv
<1>3. Pend' = Pend
  BY <1>1 DEF Pend
<1>4. Sound(toks, a, z, base)'
  BY <1>1, <1>2, <1>3 DEF Sound
<1> QED BY <1>4

LEMMA InProcessSound ==
  ASSUME DriverInv, SoundInv, in_process
  PROVE  SoundInv'
<1> SUFFICES ASSUME ~dropped PROVE \E toks, a, z, base : Sound(toks, a, z, base)'
  BY DEF SoundInv, in_process
<1>1. /\ UNCHANGED <<held, line, queue, got, mods, locks, toggled>>
      /\ pc = "in_process" /\ pc' = "read"
      /\ typed' = IF event.key = "PAUSEBREAK" \/ typed = <<>> THEN typed ELSE Tail(typed)
  BY DEF in_process, keyboard
<1>2. PICK toks, a, z, base : Sound(toks, a, z, base)
  BY DEF SoundInv
<1>3. /\ Chain(toks, a, z, got \o queue \o line, typed, base) /\ base \in Int
      /\ a.nr = base + Pend
  BY <1>2 DEF Sound, Chain
<1>4. Pend' = 0
  BY <1>1 DEF Pend
<1>5. CASE event.key = "PAUSEBREAK"
  <2>1. typed' = typed /\ Pend = 0
    BY <1>1, <1>5 DEF Pend
  <2>2. Sound(toks, a, z, base)'
    BY <1>1, <1>2, <1>4, <2>1 DEF Sound
  <2> QED BY <2>2
<1>6. CASE event.key # "PAUSEBREAK"
  <2>1. Pend = 1
    BY <1>1, <1>6 DEF Pend
  <2>2. typed # <<>> /\ typed' = Tail(typed)
    BY <1>1, <1>2, <1>6, <2>1 DEF Sound
  <2>3. base + 1 <= a.nr /\ a.nr = base + 1 + 0
    BY <1>3, <2>1
  <2>4. Chain(toks, a, z, got \o queue \o line, Tail(typed), base + 1)
    BY <1>3, <2>2, <2>3, ChainPop
  <2> DEFINE next == base + 1
  <2>5. Chain(toks, a, z, (got \o queue \o line)', typed', next) /\ a.nr = next + 0
    BY <1>1, <2>2, <2>3, <2>4
  <2> HIDE DEF next
  <2>6. Sound(toks, a, z, next)'
    BY <1>1, <1>2, <1>4, <2>5 DEF Sound
  <2> QED BY <2>6
<1> QED BY <1>5, <1>6

\* What is buffered and not yet read is whole codes of presses, releases and
\* acknowledgements, and reading them in order brings the driver to the keys held down
\* and owes in_process one event for each press still to be handled, until
\* keyboard_handler has dropped a byte.
THEOREM KeyboardSound == Spec => [](DriverInv /\ SoundInv)
<1>1. Init => DriverInv /\ SoundInv
  BY InitDriverInv, InitSound
<1>2. DriverInv /\ SoundInv /\ [Next]_vars => DriverInv' /\ SoundInv'
  <2> SUFFICES ASSUME DriverInv, SoundInv, [Next]_vars PROVE DriverInv' /\ SoundInv'
    OBVIOUS
  <2>1. CASE UNCHANGED vars
    <3>1. DriverInv'
      BY <2>1 DEF DriverInv, TypeOK, LedsInTurn, vars, keyboard, driver, history
    <3>2. SoundInv'
      BY <2>1 DEF SoundInv, Sound, Pend, vars, keyboard, driver, history
    <3> QED BY <3>1, <3>2
  <2>2. ASSUME NEW k \in Keys, Press(k) \/ Release(k) PROVE DriverInv' /\ SoundInv'
    BY <2>2, PressType, ReleaseType, PressSound, ReleaseSound
  <2>3. CASE KeyboardObeys
    BY <2>3, KeyboardObeysType, KeyboardObeysSound
  <2>4. CASE keyboard_handler
    BY <2>4, KeyboardHandlerType, KeyboardHandlerSound
  <2>5. CASE keyboard_read
    BY <2>5, KeyboardReadType, KeyboardReadSound
  <2>6. CASE set_leds
    BY <2>6, SetLedsType, SetLedsSound
  <2>7. CASE in_process
    BY <2>7, InProcessType, InProcessSound
  <2> QED BY <2>1, <2>2, <2>3, <2>4, <2>5, <2>6, <2>7 DEF Next, TaskTty
<1> QED BY <1>1, <1>2, PTL DEF Spec

\* All that was on its way has been read.
LEMMA QuietIsRead ==
  ASSUME DriverInv, SoundInv, Quiet
  PROVE  typed = <<>> /\ locks = toggled /\ ("R_ALT" \notin Keys => mods = FlagsOf(held))
<1>1. line = <<>> /\ queue = <<>> /\ got = <<>> /\ pc = "read" /\ ~dropped
  BY DEF Quiet
<1>2. PICK toks, a, z, base : Sound(toks, a, z, base)
  BY <1>1 DEF SoundInv
<1>3. got \o queue \o line = <<>>
  BY <1>1
<1>4. /\ Chain(toks, a, z, <<>>, typed, base)
      /\ a.mods = mods /\ a.locks = locks /\ a.nr = base + 0 /\ z.locks = toggled
      /\ "R_ALT" \notin Keys => z.mods = FlagsOf(held)
  BY <1>1, <1>2, <1>3 DEF Sound, Pend
<1>5. /\ toks \in Seq(Pieces) /\ a \in States /\ z \in States /\ base \in Int /\ typed \in Seq(Events)
      /\ z.at = a.at + 0 /\ z.nr = base + Len(typed)
  BY <1>4 DEF Chain
<1>6. a.at \in Int
  BY <1>5, StateType
<1>7. toks = <<>>
  <2> SUFFICES ASSUME toks # <<>> PROVE FALSE
    OBVIOUS
  <2>1. 1 \in 1 .. Len(toks) /\ toks[1] \in Pieces
    BY <1>5
  <2>2. PICK t \in Pieces : t = toks[1]
    BY <2>1
  <2>3. Fits(t, a, z, <<>>, typed, base)
    BY <1>4, <2>1, <2>2 DEF Chain
  <2>4. /\ a.at <= t.from.at /\ t.to.at <= z.at /\ t.to.at = t.from.at + Len(t.code) /\ Len(t.code) \in 1 .. 6
        /\ t.from.at \in Int
    BY <2>3, PieceType DEF Fits
  <2>5. z.at = a.at
    BY <1>5, <1>6
  <2>6. t.to.at <= t.from.at
    <3> DEFINE p == a.at
               q == t.from.at
               r == t.to.at
    <3>1. p \in Int /\ q \in Int /\ p <= q /\ r <= p
      BY <1>6, <2>4, <2>5
    <3>2. r \in Int
      BY <2>4
    <3> HIDE DEF p, q, r
    <3>3. r <= q
      BY <3>1, <3>2
    <3> QED BY <3>3 DEF q, r
  <2>7. t.to.at = t.from.at + Len(t.code) /\ t.from.at \in Int /\ Len(t.code) \in 1 .. 6
    BY <2>4
  <2> DEFINE l == Len(t.code)
             u == t.from.at
  <2>8. u + l <= u /\ u \in Int /\ l \in 1 .. 6
    BY <2>6, <2>7
  <2> HIDE DEF l, u
  <2> QED BY <2>8
<1>8. a = z
  BY <1>4, <1>7 DEF Chain
<1>9. typed = <<>>
  <2>1. Len(typed) = 0
    BY <1>4, <1>5, <1>8
  <2> QED BY <1>5, <2>1
<1> QED BY <1>4, <1>8, <1>9

\* NothingLost holds for every set of keys and every size of the buffer.
THEOREM KeyboardNothingLost == Spec => []NothingLost
<1>1. DriverInv /\ SoundInv => NothingLost
  BY QuietIsRead DEF NothingLost
<1> QED BY <1>1, KeyboardSound, PTL

\* When nothing is on its way, the lights show the locks the driver remembers: set_leds
\* writes its second byte only after the keyboard has taken the first.  With the right
\* Alt key too.
THEOREM KeyboardLeds == Spec => [](TypeOK /\ LedsShowLocks)
<1>1. DriverInv => TypeOK /\ LedsShowLocks
  BY DEF DriverInv, LedsInTurn, LedsShowLocks, Quiet
<1> QED BY <1>1, KeyboardDriverInv, PTL

\* KeyboardInv holds for every set of keys without the right Alt key, and every size
\* of the buffer.  The hypothesis is the code's doing: keyboard_read assigns alt_l where
\* it means alt_r (case ALT_R), so the modifiers differ from the keys once that key is used.
THEOREM KeyboardSafety ==
  ASSUME "R_ALT" \notin Keys
  PROVE  Spec => []KeyboardInv
<1>1. DriverInv /\ SoundInv => KeyboardInv
  <2>1. DriverInv /\ SoundInv => ModifiersMatchKeys
    BY QuietIsRead DEF ModifiersMatchKeys, FlagsOf
  <2> QED BY <2>1 DEF DriverInv, LedsInTurn, LedsShowLocks, Quiet, KeyboardInv
<1> QED BY <1>1, KeyboardSound, PTL

\* in_process is called with the oldest press not yet handled, read as the modifiers and
\* locks were when it was pressed, again without the right Alt key.
THEOREM KeyboardTypedInOrder ==
  ASSUME "R_ALT" \notin Keys
  PROVE  Spec => TypedInOrder
<1>1. DriverInv /\ SoundInv /\ [Next]_vars
        => [in_process /\ event.key # "PAUSEBREAK" /\ ~dropped => typed # <<>> /\ event = Head(typed)]_vars
  <2> SUFFICES ASSUME DriverInv, SoundInv, in_process, event.key # "PAUSEBREAK", ~dropped
               PROVE  typed # <<>> /\ event = Head(typed)
    OBVIOUS
  <2>1. Pend = 1
    BY DEF in_process, Pend
  <2>2. typed # <<>> /\ typed[1] = event
    BY <2>1 DEF SoundInv, Sound
  <2> QED BY <2>2, Types
<1> QED BY <1>1, KeyboardSound, PTL DEF Spec, TypedInOrder

===========================================================================
