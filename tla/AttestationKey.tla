--------------------------- MODULE AttestationKey ---------------------------
(***************************************************************************)
(* The hardware-attestation hook of ipnlocal (ipn/ipnlocal/hwattest.go):    *)
(* generateAttestationKeyIfEmpty(p, logf) is called, again and again, with *)
(* the profile's persisted state p or with nil.  It creates a TPM-backed   *)
(* key when p holds none (nil or IsZero) and stores it in p.               *)
(*                                                                         *)
(* key.NewHardwareAttestationKey may return a key, an ErrUnsupported, any  *)
(* other error, or a nil key with no error.                                *)
(***************************************************************************)
EXTENDS Naturals

CONSTANTS
    Keys,       \* hardware keys NewHardwareAttestationKey can create
    Loaded,     \* a key read back from disk with the profile
    NoKey,      \* p.AttestationKey == nil
    ZeroKey,    \* a key whose IsZero() is true
    MaxCalls    \* calls of the hook in a behaviour

ASSUME {Loaded, NoKey, ZeroKey} \cap Keys = {} /\ MaxCalls \in Nat

VARIABLES
    stored,     \* p.AttestationKey of the caller's Persist
    generated,  \* hardware keys created so far
    calls

vars == <<stored, generated, calls>>

Outcomes == {"key", "nilKey", "unsupported", "error"}

\* ak == nil || ak.IsZero()
Empty(ak) == ak \in {NoKey, ZeroKey}

Init ==
    /\ stored \in {NoKey, ZeroKey, Loaded}
    /\ generated = {}
    /\ calls = 0

\* generateAttestationKeyIfEmpty(p, logf), p nil when pNil.  When p is nil
\* the new key goes into a Persist local to the function.
GenerateAttestationKeyIfEmpty(pNil, outcome) ==
    /\ calls < MaxCalls
    /\ calls' = calls + 1
    /\ LET ak == IF pNil THEN NoKey ELSE stored IN
       IF Empty(ak) /\ outcome = "key"
       THEN \E k \in Keys \ generated :
              /\ generated' = generated \cup {k}
              /\ stored' = IF pNil THEN stored ELSE k
       ELSE UNCHANGED <<stored, generated>>

\* No more calls.
Done ==
    /\ calls = MaxCalls
    /\ UNCHANGED vars

Next ==
    \/ \E pNil \in BOOLEAN, outcome \in Outcomes :
          GenerateAttestationKeyIfEmpty(pNil, outcome)
    \/ Done

Spec == Init /\ [][Next]_vars

=============================================================================
