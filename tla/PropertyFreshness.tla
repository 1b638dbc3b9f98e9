-------------------------- MODULE PropertyFreshness --------------------------
(* The properties of a device that its entities show, fed by the pushes of     *)
(* MQTT and BLE, by the HTTP update cycle, by the HTTP half of a manual        *)
(* refresh and by local writes (ingest.py and the merges of coordinator.py).   *)
(* Each merge runs within one step of the event loop; the update cycle reads   *)
(* what is shown three times, with awaits in between, and replaces it at its   *)
(* end after replaying what changed meanwhile.                                 *)
(*                                                                             *)
(* Time is kept as ages and as countdowns: how old an observation's timestamp  *)
(* is, and how long a source, a canonical value or a write still has priority. *)
(* An age above Window is as good as any other: the observation is stale.      *)
EXTENDS Naturals, Sequences, FiniteSets

CONSTANTS LiveFields,       \* _MAIN_LIVE_PROPERTY_KEYS, an alias pair as one field
          SettingFields,    \* the other properties
          CanonicalFields,  \* _COMBINE_CANONICAL_PROPERTY_KEYS
          PropertyValues,
          Blank,            \* absent, or a value is_blank holds for
          Pushers,          \* the transports that push
          Window,           \* _transport_source_freshness_window
          OverrideTTL       \* _PROPERTY_OVERRIDE_TTL_SEC

ASSUME FreshnessAssumption ==
  /\ LiveFields \cap SettingFields = {} /\ CanonicalFields \subseteq LiveFields
  /\ IsFiniteSet(LiveFields) /\ IsFiniteSet(SettingFields) /\ Blank \notin PropertyValues
  /\ Pushers \subseteq {"cloud_mqtt", "local_mqtt", "ble"}
  /\ Window \in Nat \ {0} /\ OverrideTTL \in Nat \ {0}

VARIABLES
  shown,        \* PAYLOAD_PROPERTIES of the device in coordinator.data
  provenance,   \* _property_source_state: the observation a live field is from, if known
  canonical,    \* _canonical_live_property_state: fresh CombineData values
  written,      \* _property_overrides: local writes, all with the last one's age
  mqttLast,     \* PAYLOAD_MQTT_LAST: source and timestamp of the last MQTT message
  httpCycle     \* the update cycle: where it is suspended and what it holds

pfVars == <<shown, provenance, canonical, written, mqttLast, httpCycle>>

Fields == LiveFields \cup SettingFields
Nothing == [f \in Fields |-> Blank]
Payloads == [Fields -> PropertyValues \cup {Blank}]
Ages == {{}} \cup {{n} : n \in 0..Window + 1}    \* {}: no trustworthy timestamp

\* _LIVE_SOURCE_TIER
Tier == [http |-> 0, cloud_mqtt |-> 1, local_mqtt |-> 1, ble |-> 2]

Observation(src, age) == [src |-> src, age |-> age, left |-> Window]
Observations == [src : Pushers \cup {"http", "cloud_mqtt"}, age : Ages, left : 0..Window]
NoWrite == [left |-> 0, fields |-> Nothing]
NoCycle == [at |-> "idle", retried |-> FALSE,
            base |-> Nothing, held |-> Nothing, http |-> Nothing]

PfTypeOK ==
  /\ shown \in Payloads
  /\ \A f \in LiveFields : provenance[f] \subseteq Observations /\ Cardinality(provenance[f]) <= 1
  /\ \A f \in CanonicalFields :
       /\ canonical[f] \subseteq [value : PropertyValues, left : 1..Window]
       /\ Cardinality(canonical[f]) <= 1
  /\ written \in [left : 0..OverrideTTL, fields : Payloads]
  /\ mqttLast \subseteq [src : Pushers \ {"ble"}, age : Ages] /\ Cardinality(mqttLast) <= 1
  /\ httpCycle \in [at : {"idle", "fetch", "build", "system"}, retried : BOOLEAN,
                    base : Payloads, held : Payloads, http : Payloads]

\* What a cache or a first push has filled in before the first update cycle.
PfInit ==
  /\ shown \in Payloads
  /\ provenance = [f \in LiveFields |-> {}]
  /\ canonical = [f \in CanonicalFields |-> {}]
  /\ written = NoWrite /\ mqttLast = {} /\ httpCycle = NoCycle

------------------------------------------------------------------------------
(* The merges, on a board: the properties that are merged into, and what the   *)
(* coordinator knows of them.                                                  *)

Board == [data |-> shown, prov |-> provenance, canon |-> canonical, write |-> written.fields]

Over(base, update) == [f \in Fields |-> IF update[f] = Blank THEN base[f] ELSE update[f]]

\* _incoming_is_stale
Stale(o) == \E n \in o.age : n > Window

\* _provenance_keeps_current
KeepsCurrent(value, owner, o) ==
  /\ value # Blank
  /\ \/ Stale(o)
     \/ \E p \in owner :
          \/ Tier[o.src] < Tier[p.src] /\ p.left > 0
          \/ \E n \in o.age, m \in p.age : n > m

\* ingest_observation, as _property_updates_for_source calls it: live fields by
\* their provenance, the others always.
Taken(b, update, o) ==
  {f \in Fields : /\ update[f] # Blank
                  /\ f \in LiveFields => ~KeepsCurrent(b.data[f], b.prov[f], o)}

CanonicalValues(canon) ==
  [f \in Fields |-> IF f \in CanonicalFields /\ canon[f] # {}
                    THEN (CHOOSE c \in canon[f] : TRUE).value ELSE Blank]

\* _merge_main_properties_for_device: what was taken, then what CombineData said
\* of late, then what was written here.
Merged(b, update, o, canonicalKeys) ==
  LET taken == Taken(b, update, o)
      accepted == [f \in Fields |-> IF f \in taken THEN update[f] ELSE b.data[f]]
      confirmed == {f \in canonicalKeys : /\ update[f] # Blank /\ accepted[f] = update[f]
                                          /\ o.src # "http" /\ ~Stale(o)}
      canon == [f \in CanonicalFields |->
                  IF f \in confirmed THEN {[value |-> update[f], left |-> Window]}
                  ELSE b.canon[f]]
  IN  [data  |-> Over(Over(accepted, CanonicalValues(canon)), b.write),
       prov  |-> [f \in LiveFields |-> IF f \in taken THEN {o} ELSE b.prov[f]],
       canon |-> canon,
       write |-> b.write]

\* _merge_partial_device_update: only what differs is merged, and without a
\* difference nothing is.
MergedPartial(b, update, o) ==
  LET delta == [f \in Fields |-> IF update[f] = b.data[f] THEN Blank ELSE update[f]]
  IN  IF delta = Nothing THEN b ELSE Merged(b, delta, o, {})

\* _push_partial_update, after a merge into a copy of the entry: the copy is
\* compared with what is shown and merged once more.
Published(b, o) == MergedPartial([b EXCEPT !.data = shown], b.data, o)

\* Without an explicit source the entry's own mqtt_last is taken for it; without
\* that one too, HTTP when it has answered for the entry, or cloud MQTT.
EntryLabel(src) ==
  IF mqttLast = {} THEN Observation(src, {})
  ELSE LET last == CHOOSE m \in mqttLast : TRUE IN Observation(last.src, last.age)

Set(b) == shown' = b.data /\ provenance' = b.prov /\ canonical' = b.canon

------------------------------------------------------------------------------
(* What arrives beside the update cycle. *)

\* A BLE frame with main properties, stamped with its reception.
BlePush(update, age, canonicalKeys) ==
  /\ update # Nothing
  /\ LET o == Observation("ble", {age})
     IN  Set(Published(Merged(Board, update, o, canonicalKeys), o))
  /\ UNCHANGED <<written, mqttLast, httpCycle>>

\* An MQTT message; one about something else brings no properties.
MqttPush(src, update, age, canonicalKeys) ==
  /\ LET o == Observation(src, age)
         b == IF update = Nothing THEN Board ELSE Merged(Board, update, o, canonicalKeys)
     IN  Set(Published(b, o))
  /\ mqttLast' = {[src |-> src, age |-> age]}
  /\ UNCHANGED <<written, httpCycle>>

\* async_refresh_documented_http_read, after its requests: merged into what is
\* shown by now, then pushed without a source.
HttpRead(response) ==
  /\ Set(Published(Merged(Board, response, Observation("http", {}), {}), EntryLabel("http")))
  /\ UNCHANGED <<written, mqttLast, httpCycle>>

\* _apply_local_property_patch
LocalWrite(f, v) ==
  LET writes == [written.fields EXCEPT ![f] = v]
      b == [Board EXCEPT !.write = writes, !.data = [shown EXCEPT ![f] = v]]
  IN  /\ written' = [left |-> OverrideTTL, fields |-> writes]
      /\ \E src \in {"http", "cloud_mqtt"} : Set(Published(b, EntryLabel(src)))
      /\ UNCHANGED <<mqttLast, httpCycle>>

------------------------------------------------------------------------------
(* The HTTP update cycle, and time. *)

CycleStarts ==
  /\ httpCycle.at = "idle"
  /\ httpCycle' = [NoCycle EXCEPT !.at = "fetch", !.base = shown]
  /\ UNCHANGED <<shown, provenance, canonical, written, mqttLast>>

\* The property request has returned; the extras of the device are next.
PropertyAnswered(response) ==
  /\ httpCycle.at = "fetch"
  /\ httpCycle' = [httpCycle EXCEPT !.at = "build", !.held = shown, !.http = response]
  /\ UNCHANGED <<shown, provenance, canonical, written, mqttLast>>

\* The request failed for this device: what is shown stands for its answer.
PropertyFailed ==
  /\ httpCycle.at = "fetch"
  /\ httpCycle' = [httpCycle EXCEPT !.at = "system", !.held = shown]
  /\ UNCHANGED <<shown, provenance, canonical, written, mqttLast>>

\* _async_build_guarded_device_base_entry
EntryBuilt ==
  /\ httpCycle.at = "build"
  /\ LET b == Merged([Board EXCEPT !.data = httpCycle.held], httpCycle.http,
                     Observation("http", {}), {})
     IN  /\ httpCycle' = [httpCycle EXCEPT !.at = "system", !.held = b.data, !.http = Nothing]
         /\ provenance' = b.prov
  /\ UNCHANGED <<shown, canonical, written, mqttLast>>

\* A device id was invalid: the cycle runs once more, with the baseline it has.
CycleRetried ==
  /\ httpCycle.at = "system" /\ ~httpCycle.retried
  /\ httpCycle' = [httpCycle EXCEPT !.at = "fetch", !.retried = TRUE, !.held = Nothing]
  /\ UNCHANGED <<shown, provenance, canonical, written, mqttLast>>

ReplayLabel_Cloud(b, f) == Observation("cloud_mqtt", {})

\* _concurrent_property_delta_metadata: the source and the timestamp on record
\* (which make no difference to the fields that are always taken).
ReplayLabel(b, f) ==
  IF f \in SettingFields \/ b.prov[f] = {} THEN Observation("cloud_mqtt", {})
  ELSE [(CHOOSE p \in b.prov[f] : TRUE) EXCEPT !.left = Window]

\* The changed fields as the delta has them, one after another.
Orders == LET changed == {f \in Fields : shown[f] # httpCycle.base[f]}
          IN  {order \in [1..Cardinality(changed) -> changed] :
                 \A f \in changed : \E i \in DOMAIN order : order[i] = f}

\* _merge_concurrent_coordinator_updates: each of them is merged again.
Replayed(order) ==
  LET replay[i \in 0..Len(order)] ==
        IF i = 0 THEN [Board EXCEPT !.data = httpCycle.held]
        ELSE LET b == replay[i - 1]
                 f == order[i]
             IN  MergedPartial(b, [b.data EXCEPT ![f] = shown[f]], ReplayLabel(b, f))
  IN  replay[Len(order)]

CycleEnds ==
  /\ httpCycle.at = "system"
  /\ \E order \in Orders : Set(Replayed(order))
  /\ httpCycle' = NoCycle
  /\ UNCHANGED <<written, mqttLast>>

\* Time limit, rejected login: what is shown stays.
CycleAborted ==
  /\ httpCycle.at # "idle"
  /\ httpCycle' = NoCycle
  /\ UNCHANGED <<shown, provenance, canonical, written, mqttLast>>

Older(age) == {IF n > Window THEN n ELSE n + 1 : n \in age}

PfTick ==
  /\ provenance' = [f \in LiveFields |->
       {[p EXCEPT !.age = Older(@), !.left = IF @ = 0 THEN 0 ELSE @ - 1] : p \in provenance[f]}]
  /\ canonical' = [f \in CanonicalFields |->
       {[c EXCEPT !.left = @ - 1] : c \in {d \in canonical[f] : d.left > 1}}]
  /\ written' = IF written.left > 1 THEN [written EXCEPT !.left = @ - 1] ELSE NoWrite
  /\ mqttLast' = {[m EXCEPT !.age = Older(@)] : m \in mqttLast}
  /\ UNCHANGED <<shown, httpCycle>>

\* What a message about some of the fields F may say.
PayloadsOn(F) ==
  {[f \in Fields |-> IF f \in F THEN p[f] ELSE Blank] : p \in [F -> PropertyValues \cup {Blank}]}

PfStep(F) ==
  \/ \E update \in PayloadsOn(F), keys \in {{}, CanonicalFields \cap F} :
       \/ \E age \in 0..Window + 1 : "ble" \in Pushers /\ BlePush(update, age, keys)
       \/ \E src \in Pushers \ {"ble"}, age \in Ages : MqttPush(src, update, age, keys)
  \/ \E response \in PayloadsOn(F) : HttpRead(response) \/ PropertyAnswered(response)
  \/ \E f \in F, v \in PropertyValues : LocalWrite(f, v)
  \/ CycleStarts \/ PropertyFailed \/ EntryBuilt \/ CycleRetried
  \/ CycleEnds \/ CycleAborted
  \/ PfTick

PfNext == PfStep(Fields)

PfSpec == PfInit /\ [][PfNext]_pfVars

------------------------------------------------------------------------------
PushedOfLate(f) == \E p \in provenance[f] : p.src # "http" /\ p.left > 0
Outdated(f) == f \in LiveFields /\ \E p \in provenance[f] : Stale(p)

\* f shows what it showed, or what CombineData or a local write lays over it.
Stands(f) ==
  shown'[f] \in {shown[f], CanonicalValues(canonical')[f], written'.fields[f]} \ {Blank}

\* HTTP, polled or asked for, takes no value away that another way has brought.
\* A fresh pushed value stays through a manual read; what changed during an
\* update cycle is still shown after it (unless it was old already when it came);
\* and a local write is shown for as long as it has priority.  What a cycle cannot
\* see is a push or a write of the value that its baseline had.
ChangesSurvive ==
  [][shown' # shown =>
     /\ \A f \in LiveFields : PushedOfLate(f) /\ ~Stands(f) =>
          ~\E response \in Payloads : HttpRead(response)
     /\ CycleEnds => \A f \in Fields :
          shown[f] # httpCycle.base[f] /\ ~Outdated(f) => Stands(f)
     /\ written' = written => \A f \in Fields :
          written.fields[f] \in PropertyValues \cap {shown[f]} =>
            shown'[f] = shown[f] \/ (CycleEnds /\ shown[f] = httpCycle.base[f])]_pfVars

\* A manual refresh merges the answer of HTTP as the polling does
\* (coordinator.py:13383-13385).
ReadIsMerged ==
  [][\A response \in Payloads : HttpRead(response) =>
       shown' = Merged(Board, response, Observation("http", {}), {}).data]_pfVars
==============================================================================
