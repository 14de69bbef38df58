------------------------------ MODULE FrameCodec ------------------------------
(***************************************************************************)
(* The run-length code of presented frames: compress_frame on the server,  *)
(* decompress_rle and the checks of handle_frame on the client.            *)
(*                                                                         *)
(* A payload is a sequence of tokens, <<1, count, byte>> for a run and     *)
(* <<0, count>> \o bytes for a literal.  The program's MaxCount, MinRun and *)
(* Gain are 255, 4 and 4.                                                  *)
(***************************************************************************)
EXTENDS Naturals, Sequences, FiniteSetsExt

CONSTANTS
  MaxCount,   \* largest count one byte holds
  MinRun,     \* shorter runs are sent as literals
  Gain        \* bytes a compressed frame must save, and one more

ASSUME CodecAssumption ==
  MaxCount \in Nat \ {0} /\ MinRun \in 2 .. MaxCount /\ Gain \in Nat

\* static_cast<uint8_t>
Byte(n) == n % (MaxCount + 1)

\* Mutation: a run may be one longer than its count can say.
RunLimitPlusOne == MaxCount + 1
\* The longest run compress_frame looks for.
RunLimit == MaxCount

\* Length of the run that starts at s[i].
RunLength(s, i) ==
  Max({n \in 1 .. Min({RunLimit, Len(s) - i + 1}) :
         \A k \in i .. i + n - 1 : s[k] = s[i]})

\* compress_frame, the loop: what it writes for the frame s.
Encode(s) ==
  LET from[i \in 1 .. Len(s) + 1] ==
        LET run     == RunLength(s, i)
            literal == Min({MaxCount, Len(s) - i + 1})
        IN  IF i > Len(s) THEN <<>>
            ELSE IF run >= MinRun
            THEN <<1, Byte(run), s[i]>> \o from[i + run]
            ELSE <<0, Byte(literal)>> \o SubSeq(s, i, i + literal - 1)
                 \o from[i + literal]
  IN  from[1]

\* A frame as it is sent: header and payload.
Compress(s) ==
  LET rle == Len(Encode(s)) + Gain < Len(s)
  IN  [rle |-> rle, size |-> Len(s), payload |-> IF rle THEN Encode(s) ELSE s]

-----------------------------------------------------------------------------
\* What a read of payload[i] gives; behind the end it is whatever lies there.
At(payload, i) == IF i <= Len(payload) THEN payload[i] ELSE 0

\* Mutation: no look at the end of the payload.
AlwaysFits(payload, last) == TRUE
\* decompress_rle's checks against payload_size.
Fits(payload, last) == last <= Len(payload)

Refused == [ok |-> FALSE, bytes |-> <<>>]

\* decompress_rle, the loop.
Decode(payload) ==
  LET from[i \in 1 .. 2 * Len(payload) + MaxCount + 2] ==
        LET count == At(payload, i + 1)
            run   == payload[i] = 1
            last  == i + 1 + IF run THEN 1 ELSE count
            rest  == from[last + 1]
            bytes == [k \in 1 .. count |-> At(payload, i + 1 + IF run THEN 1 ELSE k)]
        IN  IF i > Len(payload) THEN [ok |-> TRUE, bytes |-> <<>>]
            ELSE IF ~Fits(payload, i + 1) \/ ~Fits(payload, last) THEN Refused
            ELSE IF ~rest.ok THEN Refused
            ELSE [ok |-> TRUE, bytes |-> bytes \o rest.bytes]
  IN  from[1]

\* handle_frame up to the pixels: the decoded size must be the announced one
\* and a frame must not be shorter than its rows.
Decompress(frame) ==
  LET pixels == IF frame.rle THEN Decode(frame.payload)
                             ELSE [ok |-> TRUE, bytes |-> frame.payload]
      sized  == ~frame.rle \/ frame.size = 0 \/ Len(pixels.bytes) = frame.size
  IN  IF pixels.ok /\ sized /\ Len(pixels.bytes) >= frame.size THEN pixels
                                                               ELSE Refused

\* Proper prefixes of a payload.
Truncated(payload) == {SubSeq(payload, 1, n) : n \in 0 .. Len(payload) - 1}

\* Of the frame s the client decodes s, compressed or not, whatever runs
\* straddle the largest count or end in a literal; and of a payload cut short
\* it decodes nothing (swapchain_manager.cpp:284, linux_wsi.cpp:58).
CodedFaithfully(s) ==
  LET whole == [ok |-> TRUE, bytes |-> s]
      coded == [rle |-> TRUE, size |-> Len(s), payload |-> Encode(s)]
  IN  /\ Decode(Encode(s)) = whole
      /\ Decompress(Compress(s)) = whole
      /\ \A p \in Truncated(Encode(s)) : Decompress([coded EXCEPT !.payload = p]) = Refused
      /\ \A p \in Truncated(s) :
           Decompress([Compress(s) EXCEPT !.rle = FALSE, !.payload = p]) = Refused

=============================================================================
