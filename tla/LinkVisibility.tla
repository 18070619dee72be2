---------------------------- MODULE LinkVisibility ----------------------------
(***************************************************************************)
(* What the owner sees of archiving: an entity type is there or put away, a *)
(* link is hidden by hand or not, and a link is visible exactly when it is  *)
(* not hidden and neither of its ends is put away.  There are no cascades   *)
(* and no marks: visibility is a function of the two.                       *)
(***************************************************************************)
CONSTANTS EntityKeys, LinkKeys, Absent

VARIABLES there,    \* entity types that are there
          away,     \* entity types that are put away
          ends,     \* the ends of each link
          hidden,   \* links the owner archived
          visible   \* links the owner sees

vars == <<there, away, ends, hidden, visible>>

Shown(aw, es, hid) ==
    {l \in LinkKeys : es[l] # Absent /\ l \notin hid /\ es[l] \cap aw = {}}

Init == /\ there = {} /\ away = {}
        /\ ends = [l \in LinkKeys |-> Absent]
        /\ hidden = {} /\ visible = {}

Create(e) == /\ e \notin there \cup away
             /\ there' = there \cup {e}
             /\ UNCHANGED <<away, ends, hidden, visible>>

PutAway(e) == /\ e \in there
              /\ there' = there \ {e} /\ away' = away \cup {e}
              /\ visible' = Shown(away', ends, hidden)
              /\ UNCHANGED <<ends, hidden>>

BringBack(e) == /\ e \in away
                /\ there' = there \cup {e} /\ away' = away \ {e}
                /\ visible' = Shown(away', ends, hidden)
                /\ UNCHANGED <<ends, hidden>>

Connect(l, a, b) == /\ a \in there /\ b \in there
                    /\ ends[l] = Absent
                    /\ ends' = [ends EXCEPT ![l] = {a, b}]
                    /\ visible' = Shown(away, ends', hidden)
                    /\ UNCHANGED <<there, away, hidden>>

Hide(l) == /\ l \in visible
           /\ hidden' = hidden \cup {l}
           /\ visible' = Shown(away, ends, hidden')
           /\ UNCHANGED <<there, away, ends>>

Unhide(l) == /\ l \in hidden /\ ends[l] \subseteq there
             /\ hidden' = hidden \ {l}
             /\ visible' = Shown(away, ends, hidden')
             /\ UNCHANGED <<there, away, ends>>

Next == \/ \E e \in EntityKeys : Create(e) \/ PutAway(e) \/ BringBack(e)
        \/ \E l \in LinkKeys : \/ \E a, b \in EntityKeys : Connect(l, a, b)
                               \/ Hide(l)
                               \/ Unhide(l)

Spec == Init /\ [][Next]_vars
=============================================================================
