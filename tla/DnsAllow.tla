------------------------------ MODULE DnsAllow ------------------------------
(***************************************************************************)
(* The sandboxes' network policy at run time (lib/dnsallow.py): two root   *)
(* daemons and the file between them.                                      *)
(*                                                                         *)
(* sbx-netlocal (Tracker) keeps the sandboxes' slice denied the addresses  *)
(* of the host and its LAN, and writes them to a file.  sbx-dnsallow       *)
(* (Allower) opens, to each unit, the addresses its allowed names resolve  *)
(* to: an opened address is reached whatever the slice denies, so what     *)
(* the file has is left shut.                                              *)
(*                                                                         *)
(* Prefixes and the addresses in them are members of Addr; what resolved   *)
(* reports is a Lookup, the rules its names match with its addresses.      *)
(***************************************************************************)
EXTENDS Naturals, FiniteSets

CONSTANTS
  Addr,
  Static,       \* the static local ranges
  Lans,         \* what the host and its LAN may have of the others
  Rule, Unit,
  UnitsOf,      \* the units of each rule
  Glob,         \* units that only a pattern names: found while they are active
  Denies,       \* each rule's own deny
  Lookup,       \* successful lookups: [rules, addrs]
  DoneMax,      \* entries remembered before all are forgotten
  NoSet         \* no file; nothing applied; the slice as its unit file has it

ASSUME DnsAssumption ==
  /\ Static \subseteq Addr /\ Lans \subseteq SUBSET Addr /\ \A s \in SUBSET Addr : s # NoSet
  /\ UnitsOf \in [Rule -> SUBSET Unit] /\ Glob \subseteq Unit
  /\ Denies \in [Rule -> SUBSET Addr]
  /\ Lookup \subseteq [rules : SUBSET Rule, addrs : SUBSET Addr]
  /\ DoneMax \in Nat

VARIABLES
  lan,          \* the local addresses the host has now
  tpc, nets,    \* where the tracker is, and its latest scan
  applied,      \* the set it last got on the slice          (self.applied)
  file,         \* the state file
  slice,        \* what the slice denies
  behind,       \* history: the slice missed the set the file has
  matched,      \* rules of a lookup that the allower has still to serve
  todo,         \* units of the rule it is at
  opening,      \* the addresses to open
  barred,       \* history: what the slice denied when they were checked
  known,        \* (unit, address) it opened                 (self.done)
  opened,       \* each unit's IPAddressAllow= beside its own
  active        \* of the units in Glob, those that run

tracker == <<tpc, nets, applied, file, slice, behind>>
allower == <<matched, todo, opening, barred, known, opened>>
dvars == <<lan, tracker, allower, active>>

DnsInit ==
  /\ lan \in Lans
  /\ tpc = "off" /\ nets = {} /\ applied = NoSet /\ file = NoSet /\ slice = NoSet
  /\ behind = FALSE
  /\ matched = {} /\ todo = {} /\ opening = {} /\ barred = {} /\ known = {}
  /\ opened = [u \in Unit |-> {}]
  /\ active = {}

-----------------------------------------------------------------------------
(* sbx-netlocal                                                            *)

TrackerStarts ==
  /\ tpc = "off"
  /\ tpc' = "idle" /\ applied' = NoSet
  /\ UNCHANGED <<lan, nets, file, slice, behind, allower, active>>

\* A crash keeps the file and the slice; a stop removes the file.  systemctl
\* may have been done by then.
TrackerEnds ==
  /\ tpc # "off"
  /\ tpc' = "off"
  /\ file' \in {file, NoSet}
  /\ \/ slice' = slice /\ behind' = (behind \/ tpc = "set")
     \/ tpc = "set" /\ slice' = nets /\ behind' = FALSE
  /\ UNCHANGED <<lan, nets, applied, allower, active>>

\* current: on a change of the host's addresses, or after RESCAN seconds; with
\* the set that is applied already there is nothing to do.
Scan ==
  /\ tpc = "idle" /\ lan \ Static # applied
  /\ tpc' = "publish" /\ nets' = lan \ Static
  /\ UNCHANGED <<lan, applied, file, slice, behind, allower, active>>

\* publish: the file, all of it or none.
Publish ==
  /\ tpc = "publish"
  /\ tpc' = "set" /\ file' = nets
  /\ UNCHANGED <<lan, nets, applied, slice, behind, allower, active>>

SetDeny ==
  /\ tpc = "set"
  /\ tpc' = "idle" /\ slice' = nets /\ applied' = nets
  /\ behind' = FALSE
  /\ UNCHANGED <<lan, nets, file, allower, active>>

\* Mutant: the set counts as applied once its file is out.
RefreshFails_Applied ==
  /\ tpc \in {"publish", "set"}
  /\ tpc' = "idle" /\ applied' = nets
  /\ behind' = (behind \/ tpc = "set")
  /\ UNCHANGED <<lan, nets, file, slice, allower, active>>

\* Either step fails: whatever was set last is kept.
RefreshFails ==
  /\ tpc \in {"publish", "set"}
  /\ tpc' = "idle"
  /\ behind' = (behind \/ tpc = "set")
  /\ UNCHANGED <<lan, nets, applied, file, slice, allower, active>>

LanChanges ==
  /\ lan' \in Lans \ {lan}
  /\ UNCHANGED <<tracker, allower, active>>

-----------------------------------------------------------------------------
(* sbx-dnsallow                                                            *)

Working == matched # {} \/ todo # {}

\* What the slice denies because the tracker found it to be local: in the scan
\* it acts on and in the last it has acted on, while it sets the one for the
\* other.  Nothing is known so while the slice misses the set the file has.
KnownLocal ==
  IF slice = NoSet \/ behind THEN {}
  ELSE IF tpc = "set" THEN slice \cap nets
  ELSE slice

\* Mutant: without the file only the static ranges are left shut.
Check_NoFileOk(l) ==
  LET shut == Static \cup (IF file = NoSet THEN {} ELSE file)
  IN  /\ ~Working /\ l.rules # {} /\ l.addrs \ shut # {}
      /\ matched' = l.rules /\ opening' = l.addrs \ shut /\ barred' = KnownLocal
      /\ UNCHANGED <<lan, tracker, todo, known, opened, active>>

\* handle: a lookup that names of some rules match; local addresses are left
\* out, and while the local set isn't known nothing is opened.
Check(l) ==
  /\ ~Working /\ l.rules # {} /\ file # NoSet
  /\ l.addrs \ (Static \cup file) # {}
  /\ matched' = l.rules
  /\ opening' = l.addrs \ (Static \cup file) /\ barred' = KnownLocal
  /\ UNCHANGED <<lan, tracker, todo, known, opened, active>>

\* units: the patterns' units that are active now.
NextRule(r) ==
  /\ r \in matched /\ todo = {}
  /\ matched' = matched \ {r}
  /\ todo' = {<<r, u>> : u \in UnitsOf[r] \ (Glob \ active)}
  /\ UNCHANGED <<lan, tracker, opening, barred, known, opened, active>>

\* set-property, of what is neither denied by the rule nor opened before; it
\* may fail, when the unit isn't loaded for one.
OpenUnit(r, u) ==
  LET new == {a \in opening \ Denies[r] : <<u, a>> \notin known}
  IN  /\ <<r, u>> \in todo
      /\ todo' = todo \ {<<r, u>>}
      /\ \/ new # {}
            /\ opened' = [opened EXCEPT ![u] = @ \cup new]
            /\ known' = (IF Cardinality(known) > DoneMax THEN {} ELSE known) \cup ({u} \X new)
         \/ UNCHANGED <<opened, known>>
      /\ UNCHANGED <<lan, tracker, matched, opening, barred, active>>

\* handle fails in the middle; or the daemon ends, and remembers nothing.
Abandon ==
  /\ Working
  /\ matched' = {} /\ todo' = {}
  /\ known' \in {known, {}}
  /\ UNCHANGED <<lan, tracker, opening, barred, opened, active>>

\* A unit starts or stops; what was opened for it stays until the host reboots.
UnitTurns(u) ==
  /\ active' = IF u \in active THEN active \ {u} ELSE active \cup {u}
  /\ UNCHANGED <<lan, tracker, allower>>

-----------------------------------------------------------------------------
DnsNext ==
  \/ TrackerStarts \/ TrackerEnds \/ Scan \/ Publish \/ SetDeny \/ RefreshFails
  \/ LanChanges
  \/ \E l \in Lookup : Check(l)
  \/ \E r \in Rule : NextRule(r) \/ \E u \in Unit : OpenUnit(r, u)
  \/ Abandon
  \/ \E u \in Glob : UnitTurns(u)

DnsSpec == DnsInit /\ [][DnsNext]_dvars

\* The tracker is started again whenever it ends; and its steps don't fail for
\* ever.
DnsFair ==
  /\ WF_dvars(TrackerStarts)
  /\ SF_dvars(Scan) /\ SF_dvars(Publish) /\ SF_dvars(SetDeny)

-----------------------------------------------------------------------------
\* Types; and what a unit has open some rule of its allows, and no rule a
\* static range; what is remembered as open is.
DnsTypeOK ==
  /\ lan \in Lans
  /\ tpc \in {"off", "idle", "publish", "set"}
  /\ nets \subseteq Addr
  /\ \A s \in {applied, file, slice} : s = NoSet \/ s \subseteq Addr
  /\ behind \in BOOLEAN
  /\ matched \subseteq Rule /\ todo \subseteq Rule \X Unit
  /\ opening \subseteq Addr /\ barred \subseteq Addr
  /\ active \subseteq Glob
  /\ opened \in [Unit -> SUBSET Addr]
  /\ known \subseteq Unit \X Addr /\ \A d \in known : d[2] \in opened[d[1]]
  /\ \A u \in Unit : \A a \in opened[u] :
       a \notin Static /\ \E r \in Rule : u \in UnitsOf[r] /\ a \notin Denies[r]

\* What a unit is opened, at whatever step of serving a lookup, the slice did
\* not deny when the lookup was checked, however the two daemons overlap and
\* whichever stops or fails: unless the tracker had lost a step between the
\* file and the slice.  handle reads the file once, so an address that the
\* tracker has denied after the check may still be opened.
LocalStaysShut ==
  [][\A u \in Unit : (opened'[u] \ opened[u]) \cap barred = {}]_dvars

\* With the tracker at rest, the set the host has applied, the allower checks
\* against that set, not a stale one.
NeverStale ==
  [][~Working /\ Working' /\ tpc = "idle" /\ applied = lan \ Static
     => opening' \cap lan = {}]_dvars

\* What the host keeps of local addresses is denied in the end, although
\* refreshes fail and the tracker ends and starts again.
LocalDenied == \A s \in Lans : (lan = s) ~> (slice = s \ Static \/ lan # s)
=============================================================================
