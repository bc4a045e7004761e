---------------------------- MODULE SiteExceptions ----------------------------
(***************************************************************************)
(* Per-site exceptions (src/crates/blaze-storage/src/exceptions.rs): a     *)
(* toggle is queued to the writer, a lookup reads the table on another     *)
(* connection and walks from the host to its parent domains.               *)
(*                                                                         *)
(* A host is the sequence of its labels.                                   *)
(***************************************************************************)
EXTENDS Naturals, Sequences, SequencesExt, Maps

CONSTANTS
  Host,          \* hosts asked for, and those a table may name
  Toggled,       \* hosts the user toggles in a run
  MaxToggles     \* bound: toggles in the channel

ASSUME TogglesAreHosts == Toggled \subseteq Host
ASSUME HostsHaveLabels == \A h \in Host : h \in Seq(ToSet(h)) /\ h # <<>>

VARIABLES
  exceptions,    \* table: host |-> blocking enabled
  toggles        \* in the writer's channel

siteVars == <<exceptions, toggles>>

SiteTypeOK ==
  /\ DOMAIN exceptions \subseteq Toggled
  /\ \A h \in DOMAIN exceptions : exceptions[h] \in BOOLEAN
  /\ toggles \in Seq([host : Toggled, enabled : BOOLEAN])

SiteInit == exceptions = <<>> /\ toggles = <<>>

SetSiteException(h, enabled) ==
  /\ Len(toggles) < MaxToggles
  /\ toggles' = Append(toggles, [host |-> h, enabled |-> enabled])
  /\ UNCHANGED exceptions

\* INSERT ... ON CONFLICT DO UPDATE, on the writer thread
ApplyToggle ==
  /\ toggles # <<>>
  /\ exceptions' = Put(exceptions, Head(toggles).host, Head(toggles).enabled)
  /\ toggles' = Tail(toggles)

\* The channel dies with the process.
SitesEnd == toggles' = <<>> /\ UNCHANGED exceptions

\* The n last labels.
LastLabels(h, n) == SubSeq(h, Len(h) - n + 1, Len(h))

\* Mutant: the walk goes on to the top-level domain.
BlockingEnabledForTld(table, h) ==
  LET walk[n \in 0 .. Len(h)] ==
        IF LastLabels(h, n) \in DOMAIN table THEN table[LastLabels(h, n)]
        ELSE IF n > 1 THEN walk[n - 1] ELSE TRUE
  IN  walk[Len(h)]

\* blocking_enabled_for: first the host, then each parent with a dot in it
BlockingEnabledFor(table, h) ==
  LET walk[n \in 0 .. Len(h)] ==
        IF LastLabels(h, n) \in DOMAIN table THEN table[LastLabels(h, n)]
        ELSE IF n > 2 THEN walk[n - 1] ELSE TRUE
  IN  walk[Len(h)]
-----------------------------------------------------------------------------
\* An exception covers its host, and the subdomains of a name with a dot.
Covers(pattern, h) == pattern = h \/ (Len(pattern) > 1 /\ IsSuffix(pattern, h))

Tables == UNION {[hosts -> BOOLEAN] : hosts \in SUBSET Host}

NearestDecides(table) ==
  \A h \in Host :
    LET covering == {p \in DOMAIN table : Covers(p, h)}
    IN  /\ covering = {} => BlockingEnabledFor(table, h)
        /\ \A p \in covering :
             (\A q \in covering : Len(q) <= Len(p)) => BlockingEnabledFor(table, h) = table[p]

EveryTable == \A table \in Tables : NearestDecides(table)

\* For every table, and so for the one at hand, what counts is the exception
\* nearest to the host ("an exception on a domain covers its subdomains"), and
\* without one blocking is on.
LookupIsNearest == EveryTable /\ NearestDecides(exceptions)
=============================================================================
