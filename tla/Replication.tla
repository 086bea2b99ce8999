---------------------------- MODULE Replication ----------------------------
(***************************************************************************)
(* postgresql_publication, postgresql_subscription and                     *)
(* postgresql_replication_slot (src/postgresql/resource_publication_fw.go, *)
(* resource_subscription_fw.go and resource_replication_slot_fw.go).  The  *)
(* subscription and the publisher's slots may be in two servers that one   *)
(* configuration describes: the catalog has the objects of both.  The      *)
(* physical slots (resource_physical_replication_slot_fw.go) are as the    *)
(* logical ones, without a plugin.                                         *)
(***************************************************************************)
EXTENDS CatalogRun

(* Publications. *)

ReadPublication(inst, row) ==
    With(inst, [owner |-> row.owner, all |-> row.all, params |-> row.params,
                tables |-> IF row.all THEN Tables ELSE row.tables])

CreatePublication ==
    LET c == Planned("publication")
        owner == Told(c.owner, Me)
    IN  /\ Turn("publication", "create")
        /\ Try("publication",
               catalog.publication[c.name] = Absent /\ owner \notin missing,
               /\ catalog' = Put("publication", c.name,
                                 [owner |-> owner, tables |-> Told(c.tables, {}),
                                  all |-> Told(c.all, FALSE),
                                  params |-> Told(c.params, Operations)])
               /\ Continue("publication", "readBack"))

\* Everything but the new name is set by the new name, before it is given.
Changes(s, c) == {f \in {"owner", "tables", "params"} : c[f] # s[f]}

NewTables(has, old, new) == (has \ (old \ new)) \cup (new \ old)

UpdatePublication ==
    LET c == Planned("publication")
        s == state.publication
        row == catalog.publication[IF Changes(s, c) = {} THEN s.name ELSE c.name]
        renamed == c.name # s.name
    IN  /\ Turn("publication", "update")
        /\ Try("publication",
               /\ Changes(s, c) # {} => row # Absent
               /\ "owner" \in Changes(s, c) => c.owner \notin missing
               /\ "tables" \in Changes(s, c) =>
                    ~row.all /\ (c.tables \ s.tables) \cap row.tables = {}
                             /\ s.tables \ c.tables \subseteq row.tables
               /\ renamed => row # Absent /\ catalog.publication[c.name] = Absent,
               /\ catalog' =
                    IF Changes(s, c) = {} /\ ~renamed THEN catalog
                    ELSE Renamed("publication", s.name, c.name,
                           [row EXCEPT !.owner = IF "owner" \in Changes(s, c) THEN c.owner ELSE @,
                                       !.tables = IF "tables" \in Changes(s, c)
                                                  THEN NewTables(@, s.tables, c.tables) ELSE @,
                                       !.params = IF "params" \in Changes(s, c) THEN c.params ELSE @])
               /\ Continue("publication", "readBack"))

DeletePublication ==
    LET s == state.publication
    IN  /\ Turn("publication", "delete")
        /\ Try("publication",
               CanDrop("publication", s.name, s.cascade),
               /\ catalog' = Put("publication", s.name, Absent)
               /\ Forget("publication"))

-----------------------------------------------------------------------------
(* Subscriptions: no statement of theirs can be in a transaction. *)

\* What cannot be read is taken from the state: a NULL slot fails the query.
ReadSubscription(inst, row) ==
    IF row.slot = Absent THEN inst ELSE With(inst, [conn |-> row.conn, slot |-> row.slot])

\* The subscription that creates its slot has it dropped with it; one that does
\* not need not find it there.
CreateSubscription ==
    LET c == Planned("subscription")
        made == Put("subscription", c.name, [conn |-> c.conn, enabled |-> TRUE, slot |-> c.slot])
    IN  /\ Turn("subscription", "create")
        /\ Try("subscription",
               /\ catalog.subscription[c.name] = Absent
               /\ c.createSlot => catalog.slot[c.slot] = Absent,
               /\ catalog' = IF c.createSlot
                             THEN [made EXCEPT !.slot[c.slot] = [plugin |-> "a"]] ELSE made
               /\ Continue("subscription", "readBack"))

Subscribed == catalog.subscription[state.subscription.name]

SetSubscription(row) == catalog' = Put("subscription", state.subscription.name, row)

\* Faulty forms: the slot goes with the subscription, or never does.
KeepsNoSlot(inst) == FALSE
KeepsEverySlot(inst) == TRUE

KeepsSlot(inst) == ~inst.createSlot

\* A slot the subscription did not create is to be kept: the subscription is
\* disabled, its slot is unset, and then it is dropped.
DisableSubscription ==
    /\ Turn("subscription", "delete")
    /\ KeepsSlot(state.subscription)
    /\ Try("subscription", Subscribed # Absent,
           /\ SetSubscription([Subscribed EXCEPT !.enabled = FALSE])
           /\ Continue("subscription", "unset"))

UnsetSlot ==
    /\ Turn("subscription", "unset")
    /\ Try("subscription", Subscribed # Absent /\ ~Subscribed.enabled,
           /\ SetSubscription([Subscribed EXCEPT !.slot = Absent])
           /\ Continue("subscription", "drop"))

\* DROP SUBSCRIPTION drops the slot it has, which must be there.
SubscriptionGone(n) ==
    LET slot == catalog.subscription[n].slot
    IN  IF slot = Absent THEN Put("subscription", n, Absent)
        ELSE [Put("subscription", n, Absent) EXCEPT !.slot[slot] = Absent]

SlotThere(row) == row.slot # Absent => catalog.slot[row.slot] # Absent

DropSubscription ==
    /\ \/ Turn("subscription", "drop")
       \/ Turn("subscription", "delete") /\ ~KeepsSlot(state.subscription)
    /\ Try("subscription",
           Subscribed # Absent /\ SlotThere(Subscribed),
           /\ catalog' = SubscriptionGone(state.subscription.name)
           /\ Forget("subscription"))

-----------------------------------------------------------------------------
(* Replication slots. *)

ReadSlot(inst, row) == With(inst, [plugin |-> row.plugin])

CreateSlot ==
    LET c == Planned("slot")
    IN  /\ Turn("slot", "create")
        /\ Try("slot", catalog.slot[c.name] = Absent,
               /\ catalog' = Put("slot", c.name, [plugin |-> c.plugin])
               /\ Record("slot", c))

\* A slot that is in use is not dropped.
DeleteSlot ==
    LET s == state.slot
    IN  /\ Turn("slot", "delete")
        /\ Try("slot", catalog.slot[s.name] # Absent /\ ~Active(s.name),
               /\ catalog' = Put("slot", s.name, Absent)
               /\ Forget("slot"))
=============================================================================
