----------------------------- MODULE FraudSignals -----------------------------
(***************************************************************************)
(* FraudDetector (compliance/fraud_detection.py): signals raised from the  *)
(* last events of a licence.  An event carries its own timestamp, so the   *)
(* detector may see events in another order than they happened.  A source  *)
(* stands for an event's address, machine and usage fingerprint, which     *)
(* change together here: the code counts addresses and machines each       *)
(* against a threshold of its own (lines 261-262), and of one count the    *)
(* smaller threshold decides.                                              *)
(***************************************************************************)
EXTENDS Integers, FiniteSets, Lists

CONSTANTS
  Licensees,        \* licence ids
  Sources,          \* where events come from
  Instants,         \* timestamps
  VelocityWindow,   \* velocity_window_seconds
  VelocityLimit,    \* the smaller of velocity_ip_threshold and velocity_machine_threshold
  BurstWindow,      \* burst_window_seconds
  BurstLimit,       \* burst_threshold
  DriftTolerance,   \* clock_drift_tolerance_seconds
  ProfileSize,      \* maxlen of a profile's deques
  MaxSignals,       \* max_signals
  MaxAnalyzed       \* bound on the events

ASSUME FraudAssumption ==
  /\ Instants \subseteq Nat /\ {VelocityWindow, VelocityLimit, BurstWindow, BurstLimit} \subseteq Nat \ {0}
  /\ {DriftTolerance, ProfileSize, MaxSignals, MaxAnalyzed} \subseteq Nat

VARIABLES
  seen,      \* every event analysed, oldest first; a profile is its last ProfileSize
  signals,   \* _signals
  total,     \* _total_signals
  verdict    \* history: types raised by the last analyze

fraudVars == <<seen, signals, total, verdict>>

Kinds == {"velocity_abuse", "clock_manipulation", "burst_abuse", "pattern_cloning"}
Event == [license : Licensees, source : Sources, at : Instants]
Signals == [license : Licensees, kind : Kinds]

FraudTypeOK ==
  /\ \A i \in DOMAIN seen : seen[i] \in Event
  /\ \A i \in DOMAIN signals : signals[i] \in Signals
  /\ total \in Nat
  /\ verdict \subseteq Kinds

FraudInit == seen = <<>> /\ signals = <<>> /\ total = 0 /\ verdict = {}

EventsOf(s, l) == Kept(s, [license : {l}, source : Sources, at : Instants])
Profile(s, l) == LastOf(EventsOf(s, l), ProfileSize)

(* The rules look back from the event's own timestamp: whatever is later   *)
(* than it counts as recent, too.                                          *)
Recent(p, at, window) == {i \in DOMAIN p : p[i].at >= at - window}

SourcesIn(p, at) == {p[i].source : i \in Recent(p, at, VelocityWindow)}

TooManySources(p, at) == Cardinality(SourcesIn(p, at)) > VelocityLimit

ClockWentBack(p) ==
  Len(p) >= 2 /\ p[Len(p) - 1].at - p[Len(p)].at > DriftTolerance

Burst(p, at) == Cardinality(Recent(p, at, BurstWindow)) > BurstLimit

(* The signals one event raises, in the order of the rules. *)
Raised(p, e) ==
  LET If(c, kind) == IF c THEN <<[license |-> e.license, kind |-> kind]>> ELSE <<>>
  IN If(TooManySources(p, e.at), "velocity_abuse") \o
     If(ClockWentBack(p), "clock_manipulation") \o If(Burst(p, e.at), "burst_abuse")

KindsOf(s) == {s[i].kind : i \in DOMAIN s}

Analyze(e) ==
  /\ Len(seen) < MaxAnalyzed /\ seen' = Append(seen, e)
  /\ LET new == Raised(Profile(seen', e.license), e)
     IN /\ signals' = LastOf(signals \o new, MaxSignals)
        /\ total' = total + Len(new)
        /\ verdict' = KindsOf(new)

(* check_cloning for one pair, min_overlap 0.8: its signals are not        *)
(* trimmed until the next event, and a second check raises them again.     *)
Fingerprints(l) == LET p == Profile(seen, l) IN {p[i].source : i \in DOMAIN p}

Overlapping(a, b) ==
  LET larger == IF Cardinality(Fingerprints(a)) > Cardinality(Fingerprints(b))
                  THEN Cardinality(Fingerprints(a)) ELSE Cardinality(Fingerprints(b))
  IN Fingerprints(a) # {} /\ Fingerprints(b) # {} /\
     10 * Cardinality(Fingerprints(a) \cap Fingerprints(b)) >= 8 * larger

CheckCloning(a, b) ==
  /\ a # b /\ Overlapping(a, b) /\ Len(signals) <= MaxSignals
  /\ signals' = Append(signals, [license |-> a, kind |-> "pattern_cloning"])
  /\ total' = total + 1
  /\ UNCHANGED <<seen, verdict>>

FraudNext ==
  \/ \E e \in Event : Analyze(e)
  \/ \E a, b \in Licensees : CheckCloning(a, b)

---------------------------------------------------------------------------
(* An event is reported for a burst, or for too many sources, when the     *)
(* window before it holds them, unless the profile has lost events; and    *)
(* only then, unless the event arrived after a later one: then the window  *)
(* reaches into its future.  The clock is suspected only of events that    *)
(* arrived out of order.                                                   *)
Analyzed == seen[Len(seen)]
Mine == EventsOf(seen, Analyzed.license)
InOrder == \A i \in DOMAIN Mine : Mine[i].at <= Analyzed.at
Whole == Len(Mine) <= ProfileSize
Before(window) == {i \in DOMAIN Mine : Mine[i].at \in (Analyzed.at - window) .. Analyzed.at}

FraudSound ==
  seen # <<>> =>
    LET burst == Cardinality(Before(BurstWindow)) > BurstLimit
        sources == Cardinality({Mine[i].source : i \in Before(VelocityWindow)}) > VelocityLimit
    IN /\ InOrder => /\ "burst_abuse" \in verdict => burst
                     /\ "velocity_abuse" \in verdict => sources
                     /\ "clock_manipulation" \notin verdict
       /\ Whole => /\ burst => "burst_abuse" \in verdict
                   /\ sources => "velocity_abuse" \in verdict
       /\ Len(signals) <= total
=============================================================================
