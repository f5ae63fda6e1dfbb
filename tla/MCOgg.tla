------------------------------- MODULE MCOgg -------------------------------
(* libogg on small instances: the framing over an unreliable wire, the bit
   packer with bytes of three bits, and the library's own tests at full size.
   Each behaviour exercises one of the three; which one, Init chooses.  *)
EXTENDS OggChannel

CONSTANTS PackOps, ReadOps, PackWidths, CrcBody, Outcome(_)

VARIABLES part, o, r, msb, packed, calls, pos, value, wanted, test, report

MCSource == <<{0}, {1, 2}, {0, 2}>>

Pack == INSTANCE OggPackClient
          WITH B <- 3, Increment <- 6, Source <- MCSource, written <- packed, got <- value
Test == INSTANCE OggSelfTest

MCOutcome(n) == Test!Passes(n)

packVars == <<o, r, msb, packed, calls, pos, value, wanted>>
testVars == <<test, report>>
allVars == <<vars, part, packVars, testVars>>

MCInit ==
  /\ part \in {"framing", "packing", "tests"}
  /\ Init /\ Pack!PackInit /\ Test!TestInit
  /\ part = "packing" \/ ~msb

Framing == part = "framing" /\ Next /\ UNCHANGED <<part, packVars, testVars>>
Packing == part = "packing" /\ Pack!PackNext /\ UNCHANGED <<part, vars, testVars>>
Testing == part = "tests" /\ Test!RunTest /\ UNCHANGED <<part, vars, packVars>>

MCNext == Framing \/ Packing \/ Testing

MCSpec == MCInit /\ [][MCNext]_allVars

(* A read returns what was written at its place, or -1 exactly when bits are
   missing (oggpack_look, oggpack_read, oggpack_adv).  *)
ReadsWhatWasPacked == Pack!ReadsWhatWasPacked

(* The models compute what the tests under _V_SELFTEST expect.  *)
SelfTestsPass == Test!SelfTestsPass
=============================================================================
