------------------------------- MODULE InputWire -------------------------------
(***************************************************************************)
(* Input on its way from the browser to the streamer: coordinates          *)
(* (InputCoordTranslator.ts), messages laid out by their formats           *)
(* (SendMessageController.ts, StreamMessageController.ts), the protocol    *)
(* message that updates the formats (onProtocolMessage), the activity of   *)
(* gamepads, and the JavaScript streamer, which announces its protocol and *)
(* takes the messages apart (streamer.ts, protocol.ts).  Messages are      *)
(* sequences of bytes; a double is eight bytes that carry it whole.        *)
(***************************************************************************)
EXTENDS Integers, Sequences, SequencesExt, FiniteSets

CONSTANTS
  MaxSize,  \* bound: width and height of the player and of the video
  Values,   \* samples of a gamepad's axis, in hundredths
  MaxSends  \* bound: messages of the browser

\* A definition whose comment says "Mutant" is a faulty variant of the one below it.

VARIABLES
  subject,   \* what of it happens: the three do not touch each other
  point,     \* the pointer: the player's and the video's size, and where it is
  formats,   \* toStreamerMessages of the browser
  channel,   \* the data channel: open, and protocol messages under way in it
  wire,      \* messages to the streamer that are under way: [bytes, type, args, agreed]
  got,       \* the message the streamer took apart last
  axis,      \* gamepadAnalogActivityValues of one axis; and, for the properties, its
             \* last sample and the one that counted last
  sends

vars == <<subject, point, formats, channel, wire, got, axis, sends>>

Abs(n) == IF n < 0 THEN -n ELSE n

\* A double as a whole number: towards zero.
Truncated(n, d) == IF n < 0 THEN -((-n) \div d) ELSE n \div d

-----------------------------------------------------------------------------
(* InputCoordTranslator                                                    *)

Sizes == [w: 1 .. MaxSize, h: 1 .. MaxSize]

\* reconfigure: the player is higher than the video; its ratio is left as a fraction.
PlayerIsLarger(p, v) == p.h * v.w > v.h * p.w

\* Mutant: the bars above and below the video are taken for bars at its sides.
SidesTurned(pt) ==
  LET p == pt.player  v == pt.video
  IN  IF PlayerIsLarger(p, v)
      THEN [xn |-> v.h * (2 * pt.x - p.w) + v.w * p.h, xd |-> 2 * v.w * p.h,
            yn |-> pt.y, yd |-> p.h]
      ELSE [xn |-> pt.x, xd |-> p.w,
            yn |-> v.w * (2 * pt.y - p.h) + p.w * v.h, yd |-> 2 * p.w * v.h]

\* The point in the video: x = xn / xd and y = yn / yd, from 0 to 1 inside it.
Normalized(pt) ==
  LET p == pt.player  v == pt.video
  IN  IF PlayerIsLarger(p, v)
      THEN [xn |-> pt.x, xd |-> p.w,
            yn |-> v.w * (2 * pt.y - p.h) + p.w * v.h, yd |-> 2 * p.w * v.h]
      ELSE [xn |-> v.h * (2 * pt.x - p.w) + v.w * p.h, xd |-> 2 * v.w * p.h,
            yn |-> pt.y, yd |-> p.h]

TranslateUnsigned(pt) ==
  LET n == Normalized(pt)
  IN  IF n.xn \in 0 .. n.xd /\ n.yn \in 0 .. n.yd
      THEN [inRange |-> TRUE, x |-> (n.xn * 65536) \div n.xd, y |-> (n.yn * 65536) \div n.yd]
      ELSE [inRange |-> FALSE, x |-> 65535, y |-> 65535]

\* A movement as far as the point is from the corner.
TranslateSigned(pt) ==
  LET p == pt.player  v == pt.video
  IN  IF PlayerIsLarger(p, v)
      THEN [x |-> Truncated(2 * pt.x * 32767, p.w),
            y |-> Truncated(2 * v.w * pt.y * 32767, p.w * v.h)]
      ELSE [x |-> Truncated(2 * v.h * pt.x * 32767, v.w * p.h),
            y |-> Truncated(2 * pt.y * 32767, p.h)]

\* Back to the player's pixels: x = xn / xd, y = yn / yd.
UntranslateUnsigned(pt, x, y) ==
  LET p == pt.player  v == pt.video
  IN  IF PlayerIsLarger(p, v)
      THEN [xn |-> x * p.w, xd |-> 65536,
            yn |-> (2 * y - 65536) * p.w * v.h + 65536 * p.h * v.w, yd |-> 131072 * v.w]
      ELSE [xn |-> (2 * x - 65536) * v.w * p.h + 65536 * v.h * p.w, xd |-> 131072 * v.h,
            yn |-> y * p.h, yd |-> 65536]

-----------------------------------------------------------------------------
(* Formats and bytes                                                       *)

\* One message of each structure; id and structure are those of the code.
Entry(type, id, structure) == [type |-> type, id |-> id, structure |-> structure]

\* populateDefaultProtocol
DefaultProtocol ==
  {Entry("IFrameRequest", 0, << >>), Entry("RequestQualityControl", 1, << >>),
   Entry("RequestInitialSettings", 7, << >>), Entry("TestEcho", 8, << >>),
   Entry("DataChannelLatencyTest", 9, << >>), Entry("UIInteraction", 50, <<"string">>),
   Entry("TextboxEntry", 52, <<"string">>), Entry("KeyDown", 60, <<"uint8", "uint8">>),
   Entry("MouseDown", 72, <<"uint8", "uint16", "uint16">>),
   Entry("MouseMove", 74, <<"uint16", "uint16", "int16", "int16">>),
   Entry("GamepadAnalog", 92, <<"uint8", "uint8", "double">>)}

\* DataProtocol.ToStreamer of the streamer
StreamerProtocol ==
  {Entry("IFrameRequest", 0, << >>), Entry("RequestQualityControl", 1, << >>),
   Entry("RequestInitialSettings", 7, << >>), Entry("TestEcho", 8, <<"string">>),
   Entry("UIInteraction", 50, << >>),
   Entry("TextboxEntry", 52, <<"string">>), Entry("KeyDown", 60, <<"uint8", "uint8">>),
   Entry("MouseDown", 72, <<"uint8", "uint16", "uint16">>),
   Entry("MouseMove", 74, <<"uint16", "uint16", "int16", "int16">>),
   Entry("GamepadAnalog", 92, <<"uint8", "uint8", "double">>)}

\* Values the browser has at hand for each type, beyond its width too.
Arguments(type) ==
  CASE type = "uint8" -> {0, 255, 256}
    [] type = "uint16" -> {1, 65535, 65536}
    [] type = "int16" -> {-32768, -1, 32768}
    [] type = "double" -> {0, 1}
    [] type = "string" -> {<< >>, <<97, 8364>>}

Fits(type, value) ==
  CASE type = "uint8" -> value \in 0 .. 255
    [] type = "uint16" -> value \in 0 .. 65535
    [] type = "int16" -> value \in -32768 .. 32767
    [] OTHER -> TRUE

Uint16(v) == <<v % 256, (v \div 256) % 256>>
Double(v) == [i \in 1 .. 8 |-> v]

\* One field of a message: setUint8, setUint16 little-endian, a length before a string.
Encoded(type, value) ==
  CASE type = "uint8" -> <<value % 256>>
    [] type \in {"uint16", "int16"} -> Uint16(value)
    [] type = "double" -> Double(value)
    [] type = "string" -> Uint16(Len(value)) \o FlattenSeq([i \in 1 .. Len(value) |->
                                                              Uint16(value[i])])

\* sendMessageToStreamer: the bytes of a message.
Bytes(entry, args) ==
  <<entry.id>> \o FlattenSeq([i \in 1 .. Len(args) |-> Encoded(entry.structure[i], args[i])])

Number(bytes, offset) == bytes[offset + 1] + 256 * bytes[offset + 2]

\* Mutant: the sign of an int16 is lost.
Unsigned(n) == n

Signed(n) == IF n < 32768 THEN n ELSE n - 65536

\* The bytes that reading a field asks for; of a string, its length: what follows is a
\* slice, which takes what there is.
Width(type) ==
  CASE type = "uint8" -> 1
    [] type \in {"uint16", "int16", "string"} -> 2
    [] type = "double" -> 8

\* The characters of a string that are there.
Characters(bytes, offset) ==
  LET there == (Len(bytes) - offset - 2) \div 2
  IN  IF Number(bytes, offset) <= there THEN Number(bytes, offset) ELSE there

Field(type, bytes, offset) ==
  CASE type = "uint8" -> bytes[offset + 1]
    [] type = "uint16" -> Number(bytes, offset)
    [] type = "int16" -> Signed(Number(bytes, offset))
    [] type = "double" -> bytes[offset + 1]
    [] type = "string" -> [i \in 1 .. Characters(bytes, offset) |-> Number(bytes, offset + 2 * i)]

\* deconstructMessage: where each field begins.  Behind a string of n characters the
\* streamer goes on n bytes later; no structure has a field there.
Offsets(structure, bytes) ==
  LET f[i \in 1 .. Len(structure)] ==
        IF i = 1 THEN 1
        ELSE f[i - 1] + IF structure[i - 1] = "string" THEN 2 + Number(bytes, f[i - 1])
                        ELSE Width(structure[i - 1])
  IN  f

\* Reading past the end throws.
DeconstructMessage(bytes) ==
  LET known == {e \in StreamerProtocol : e.id = bytes[1]}
  IN  IF known = {} THEN [type |-> "unknown", fields |-> << >>]
      ELSE LET e == CHOOSE k \in known : TRUE
               at == Offsets(e.structure, bytes)
           IN  IF \E i \in DOMAIN e.structure :
                    at[i] + Width(e.structure[i]) > Len(bytes)
               THEN [type |-> "thrown", fields |-> << >>]
               ELSE [type |-> e.type,
                     fields |-> [i \in DOMAIN e.structure |->
                                   Field(e.structure[i], bytes, at[i])]]

EntryOf(entries, type) == CHOOSE e \in entries : e.type = type

Agreed(type) ==
  \E e \in StreamerProtocol : e.type = type /\ e.structure = EntryOf(formats, type).structure

-----------------------------------------------------------------------------
\* sendMessageToStreamer: the data must be as many as the format has.
Send(type, args) ==
  LET entry == EntryOf(formats, type)
  IN  IF Len(entry.structure) # Len(args) THEN << >>
      ELSE <<[bytes |-> Bytes(entry, args), type |-> type, args |-> args,
              structure |-> entry.structure, agreed |-> Agreed(type)]>>

\* A message of the browser, with data of its format, or as an application gives it.
SendMessage(type, args) ==
  /\ channel.open /\ sends > 0
  /\ sends' = sends - 1
  /\ wire' = wire \o Send(type, args)
  /\ UNCHANGED <<subject, point, formats, channel, got, axis>>

ArgumentsOf(type) ==
  LET s == EntryOf(formats, type).structure
  IN  {<< >>} \cup
      {a \in [DOMAIN s -> UNION {Arguments(s[i]) : i \in DOMAIN s}] :
         \A i \in DOMAIN s : a[i] \in Arguments(s[i])}

\* The data channel opens: sendDataProtocol announces what the streamer takes, and a
\* second message without entries for the other direction.
ChannelOpens ==
  /\ ~channel.open
  /\ channel' = [open |-> TRUE, announced |-> <<StreamerProtocol, {}>>]
  /\ UNCHANGED <<subject, point, formats, wire, got, axis, sends>>

\* Formats no protocol message changes: an old Unreal leaves their structure out.
KeptFormats == {"UIInteraction", "Command", "LatencyTest"}

\* onProtocolMessage: known messages take the streamer's structure, and the browser asks
\* for the settings and the quality control.
OnProtocolMessage ==
  /\ channel.announced # << >>
  /\ LET news == {e \in Head(channel.announced) : /\ e.type \notin KeptFormats
                                                  /\ \E f \in formats : f.type = e.type}
     IN  formats' = news \cup {f \in formats : \A e \in news : e.type # f.type}
  /\ channel' = [channel EXCEPT !.announced = Tail(@)]
  /\ wire' = wire \o Send("RequestInitialSettings", << >>)
                  \o Send("RequestQualityControl", << >>)
  /\ UNCHANGED <<subject, point, got, axis, sends>>

\* handleDataChannelMessage
HandleDataChannelMessage ==
  /\ wire # << >>
  /\ wire' = Tail(wire)
  /\ got' = [sent |-> Head(wire), read |-> DeconstructMessage(Head(wire).bytes)]
  /\ UNCHANGED <<subject, point, formats, channel, axis, sends>>

-----------------------------------------------------------------------------
\* Mutant: every sample is what the next one is compared with.
EverySample(previous, value) == value

\* The sample to compare the next one with, after one that does not count.
Compared(previous, value) ==
  IF Abs(value) <= 10 /\ Abs(previous) <= 10 THEN value ELSE previous

\* countsAsActivity of GamepadAnalog, which only a message that can be sent reaches: not
\* the noise of a stick at rest, and not less than 0.02 away from the last significant
\* sample.  The samples are exact here.
CountsAsActivity(previous, value) ==
  /\ ~(Abs(value) <= 10 /\ Abs(previous) <= 10)
  /\ Abs(value - previous) >= 2

AnalogSample(value) ==
  /\ axis' = IF CountsAsActivity(axis.previous, value)
             THEN [previous |-> value, last |-> value, acted |-> value]
             ELSE [axis EXCEPT !.previous = Compared(@, value), !.last = value]
  /\ UNCHANGED <<subject, point, formats, channel, wire, got, sends>>

\* The pad goes: its samples are forgotten.
GamepadDisconnected ==
  /\ axis' = [previous |-> 0, last |-> 0, acted |-> 0]
  /\ UNCHANGED <<subject, point, formats, channel, wire, got, sends>>

NoPoint == [player |-> [w |-> 1, h |-> 1], video |-> [w |-> 1, h |-> 1], x |-> 0, y |-> 0]

\* The pointer is somewhere in a player of some size.
PointerMoves ==
  /\ point = NoPoint
  /\ \E p, v \in Sizes : \E x \in 0 .. p.w, y \in 0 .. p.h :
       point' = [player |-> p, video |-> v, x |-> x, y |-> y]
  /\ UNCHANGED <<subject, formats, channel, wire, got, axis, sends>>

-----------------------------------------------------------------------------
Init ==
  /\ subject \in {"pointer", "messages", "gamepad"}
  /\ point = NoPoint
  /\ formats = DefaultProtocol
  /\ channel = [open |-> FALSE, announced |-> << >>]
  /\ wire = << >>
  /\ got = [sent |-> [agreed |-> FALSE], read |-> [type |-> "unknown", fields |-> << >>]]
  /\ axis = [previous |-> 0, last |-> 0, acted |-> 0]
  /\ sends = MaxSends

Next ==
  \/ subject = "pointer" /\ PointerMoves
  \/ subject = "gamepad" /\ \E value \in Values : AnalogSample(value)
  \/ subject = "gamepad" /\ GamepadDisconnected
  \/ /\ subject = "messages"
     /\ \/ ChannelOpens
        \/ OnProtocolMessage
        \/ HandleDataChannelMessage
        \/ \E e \in formats : \E args \in ArgumentsOf(e.type) : SendMessage(e.type, args)

Spec == Init /\ [][Next]_vars

-----------------------------------------------------------------------------
(* Properties.                                                             *)

\* What the streamer takes apart is what the browser sent, if both had the same format
\* when it was sent and every value fits its type, whatever protocol comes meanwhile.
ReadIsSent ==
  (got.sent.agreed /\ \A i \in DOMAIN got.sent.args :
                         Fits(got.sent.structure[i], got.sent.args[i])) =>
    got.read = [type |-> got.sent.type, fields |-> got.sent.args]

\* Apart from the far edges, a point of the video arrives at the streamer where it is:
\* back within a hundredth of a pixel, with the video letterboxed on either side.
PointsComeBack ==
  LET t == TranslateUnsigned(point)
      back == UntranslateUnsigned(point, Number(Uint16(t.x), 0), Number(Uint16(t.y), 0))
      n == Normalized(point)
  IN  (t.inRange /\ n.xn < n.xd /\ n.yn < n.yd) =>
        /\ 100 * Abs(back.xn - point.x * back.xd) <= back.xd
        /\ 100 * Abs(back.yn - point.y * back.yd) <= back.yd

\* A stick that leaves its rest counts as activity before it has moved 0.02 from where
\* it last counted, however slowly it moves: no player who plays so is away.
SlowMovesCount ==
  Abs(axis.last) > 10 => Abs(axis.last - axis.acted) < 2 \/ Abs(axis.last) < 12

\* InputCoordTranslator.ts:24 "Converts coordinates from element relative coordinates to
\* values normalized within the value range of a short (and back again)".
CoordinatesFitAShort ==
  LET t == TranslateUnsigned(point)
  IN  Fits("uint16", t.x) /\ Fits("uint16", t.y)
=============================================================================
