------------------------- MODULE MagicHeaderConfig -------------------------
(***************************************************************************)
(* One peer's magic-header configuration and its use, sequentially:        *)
(*   - the four H1..H4 values are parsed one key at a time                  *)
(*     (ParseMagicHeader, which builds each range with NewMagicHeader),     *)
(*   - the four ranges are validated by NewMagicHeaders, or the default     *)
(*     WireGuard types 1..4 are installed by NewMagicHeadersUnchecked,      *)
(*   - a sender draws a magic value with MagicHeaders.Get(msgType),         *)
(*   - the receiver classifies it with Protocol.GetMagicHeaderMinFor.       *)
(* The text of a value is abstracted to its shape: a single number, or a    *)
(* "min-max" pair whose parts are a number, empty, or not a uint32          *)
(* (non-digits or more than 32 bits).                                      *)
(***************************************************************************)
EXTENDS AwgMagicHeader

CONSTANTS
    Empty,    \* an empty part of "min-max"
    NotU32    \* a part strconv.ParseUint(_, 10, 32) rejects

VARIABLES
    headerValues, \* the ranges parsed so far
    phase,        \* where the configuration attempt is
    values,       \* MagicHeaders.Values once configured
    msg,          \* the last message sent: its type and magic value
    received      \* what GetMagicHeaderMinFor returned for it

vars == <<headerValues, phase, values, msg, received>>

Phases == {"parsing", "parseError", "rejected", "entropyPanic", "configured",
           "sent", "received"}

\* The shapes of a configured value: "N", or "A-B".
Part == U32 \cup {Empty, NotU32}
Texts == [form : {"single"}, v : U32 \cup {NotU32}]
           \cup [form : {"range"}, lo : Part, hi : Part]

\* ParseMagicHeader(key, value): whether it returns a MagicHeader.
ParseMagicHeaderOk(text) ==
    IF text.form = "single"
    THEN text.v # NotU32
    ELSE /\ text.lo # Empty /\ text.hi # Empty
         /\ text.lo # NotU32 /\ text.hi # NotU32
         /\ NewMagicHeaderOk(text.lo, text.hi)

\* The MagicHeader ParseMagicHeader returns when it succeeds.
ParseMagicHeader(text) ==
    IF text.form = "single"
    THEN MagicHeader(text.v, text.v)
    ELSE MagicHeader(text.lo, text.hi)

\* The WireGuard message types 1..4 as a header list.
DefaultHeaders == [t \in MsgTypes |-> NewMagicHeaderSameValue(t)]

Init ==
    /\ headerValues = <<>>
    /\ phase = "parsing"
    /\ values = Nil
    /\ msg = [type |-> 1, value |-> 0]
    /\ received = Nil

\* The loader parses the value of the next key Hn.
ParseKey(text) ==
    /\ phase = "parsing"
    /\ Len(headerValues) < 4
    /\ IF ParseMagicHeaderOk(text)
       THEN /\ headerValues' = Append(headerValues, ParseMagicHeader(text))
            /\ UNCHANGED phase
       ELSE /\ phase' = "parseError"
            /\ UNCHANGED headerValues
    /\ UNCHANGED <<values, msg, received>>

\* NewPRNG: crypto/rand fails to fill the 32-byte seed, and it panics; the
\* process ends.
EntropyPanic ==
    /\ phase' = "entropyPanic"
    /\ UNCHANGED values

\* Variant that seeds the PRNG before validating the ranges.
NewMagicHeadersSeedFirst ==
    /\ phase = "parsing"
    /\ Len(headerValues) = 4
    /\ \E seeded \in BOOLEAN :
          CASE ~seeded -> EntropyPanic
            [] ~NewMagicHeadersOk(headerValues) ->
                 phase' = "rejected" /\ UNCHANGED values
            [] OTHER -> values' = headerValues /\ phase' = "configured"
    /\ UNCHANGED <<headerValues, msg, received>>

\* NewMagicHeaders on the four parsed ranges; on success a new PRNG is
\* seeded (seeded: crypto/rand delivered 32 bytes).
NewMagicHeaders ==
    /\ phase = "parsing"
    /\ Len(headerValues) = 4
    /\ \E seeded \in BOOLEAN :
          CASE ~NewMagicHeadersOk(headerValues) ->
                 phase' = "rejected" /\ UNCHANGED values
            [] ~seeded -> EntropyPanic
            [] OTHER -> values' = headerValues /\ phase' = "configured"
    /\ UNCHANGED <<headerValues, msg, received>>

\* NewMagicHeadersUnchecked(1, 2, 3, 4): the default, installed unvalidated
\* with a new PRNG.
NewMagicHeadersUnchecked ==
    /\ phase = "parsing"
    /\ headerValues = <<>>
    /\ \E seeded \in BOOLEAN :
          IF seeded THEN values' = DefaultHeaders /\ phase' = "configured"
                    ELSE EntropyPanic
    /\ UNCHANGED <<headerValues, msg, received>>

\* The sender stamps a message of type t with MagicHeaders.Get(t); w is the
\* keystream word the PRNG returns.
Get(t, w) ==
    /\ phase \in {"configured", "received"}
    /\ msg' = [type |-> t, value |-> MagicHeadersGet(values, t, w)]
    /\ phase' = "sent"
    /\ UNCHANGED <<headerValues, values, received>>

\* The receiver, configured alike, classifies the observed value.
Receive ==
    /\ phase = "sent"
    /\ received' = GetMagicHeaderMinFor(values, msg.value)
    /\ phase' = "received"
    /\ UNCHANGED <<headerValues, values, msg>>

\* A failed configuration attempt is final; so is the panic.
Failed ==
    /\ phase \in {"parseError", "rejected", "entropyPanic"}
    /\ UNCHANGED vars

Next ==
    \/ \E text \in Texts : ParseKey(text)
    \/ NewMagicHeaders
    \/ NewMagicHeadersUnchecked
    \/ \E t \in MsgTypes, w \in Words : Get(t, w)
    \/ Receive
    \/ Failed

Spec == Init /\ [][Next]_vars

-----------------------------------------------------------------------------

TypeOK ==
    /\ headerValues \in Seq(AllMagicHeaders) /\ Len(headerValues) <= 4
    /\ phase \in Phases
    /\ values \in [MsgTypes -> AllMagicHeaders] \cup {Nil}
    /\ msg \in [type : MsgTypes, value : U32]
    /\ received \in U32 \cup {Nil, NoMatch}

\* Reference definition: no uint32 lies in two of the ranges.
PairwiseDisjoint(hs) ==
    \A i, j \in DOMAIN hs :
        i # j => (hs[i].Max < hs[j].Min \/ hs[j].Max < hs[i].Min)

(***************************************************************************)
(* NewMagicHeaders sorts the ranges by Min and compares neighbours only;   *)
(* it must accept exactly the lists in which no value lies in two ranges,  *)
(* since reverse lookup takes the first match.  A configuration error is   *)
(* never fatal to the process: NewPRNG's panic comes only after the       *)
(* ranges were accepted (or for the unvalidated default).                  *)
(***************************************************************************)
ValidationMatchesDisjointness ==
    /\ phase = "rejected" => ~PairwiseDisjoint(headerValues)
    /\ phase \in {"configured", "sent", "received"} => PairwiseDisjoint(values)
    /\ phase = "entropyPanic" =>
           headerValues = <<>> \/ PairwiseDisjoint(headerValues)

(***************************************************************************)
(* Round trip: a value drawn by MagicHeaders.Get(t) is classified by       *)
(* GetMagicHeaderMinFor, under the same configuration, as type t's range   *)
(* (its Min), never as another type's and never as "no header".           *)
(***************************************************************************)
RoundTrip ==
    phase = "received" => received = values[msg.type].Min

(***************************************************************************)
(* The comment on NewMagicHeadersUnchecked: the default WireGuard types    *)
(* 1, 2, 3, 4 are consecutive values "that would fail the overlap check",  *)
(* which is why they are installed without NewMagicHeaders.  So            *)
(* NewMagicHeaders given the four default ranges never configures them.   *)
(***************************************************************************)
DefaultsFailOverlapCheck ==
    headerValues = DefaultHeaders => phase \notin {"configured", "sent", "received"}

=============================================================================
