----------------------------- MODULE LinkLengths -----------------------------
(***************************************************************************)
(* The supported link lengths each decoder reports, as the list of         *)
(* <<medium, meters>> the collector turns into one series per medium.      *)
(* Bytes are numbers in 0 .. 255; a length of zero is left out.            *)
(***************************************************************************)
EXTENDS Naturals, Sequences

Positive(table) == LET Listed(row) == row[2] > 0 IN SelectSeq(table, Listed)

\* The media of a list of lengths, in its order.
MediaOf(lengths) == [k \in DOMAIN lengths |-> lengths[k][1]]

\* sff8472Decoder.lengths, b: bytes 14 to 19.
Sff8472Lengths(b) ==
  Positive(<< <<"single_mode", b[1] * 1000>>, <<"single_mode", b[2] * 100>>,
              <<"multimode_50um", b[3] * 10>>, <<"multimode_625um", b[4] * 10>>,
              <<"copper", b[5]>>, <<"om3", b[6] * 10>> >>)

\* sff8636Decoder.lengths, b: bytes 142 to 146.
Sff8636Lengths(b) ==
  Positive(<< <<"single_mode", b[1] * 1000>>, <<"om3", b[2] * 2>>, <<"om2", b[3]>>,
              <<"om1", b[4]>>, <<"cable_assembly", b[5]>> >>)

\* The two top bits of a CMIS length byte scale the six others.
Base(v) == v % 64
Scale(v) == v \div 64

CableAssemblyLength(v) ==
  CASE v = 255      -> 6300
    [] Scale(v) = 0 -> (Base(v) + 5) \div 10
    [] Scale(v) = 1 -> Base(v)
    [] Scale(v) = 2 -> Base(v) * 10
    [] OTHER        -> Base(v) * 100

SMFLength(v) ==
  CASE Scale(v) = 0 -> Base(v) * 100
    [] Scale(v) = 1 -> Base(v) * 1000
    [] OTHER        -> 0

\* cmisDecoder.lengths: page 00h gives the cable, page 01h (p: its bytes 132 to
\* 136, or <<>> when the page is missing) the fibres.
CmisLengths(cable, p) ==
  Positive(<< <<"cable_assembly", CableAssemblyLength(cable)>> >> \o
           (IF p = <<>> THEN <<>>
            ELSE << <<"single_mode", SMFLength(p[1])>>, <<"om5", p[2] * 2>>,
                    <<"om4", p[3] * 2>>, <<"om3", p[4] * 2>>, <<"om2", p[5]>> >>))
=============================================================================
