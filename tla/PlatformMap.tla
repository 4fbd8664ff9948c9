---------------------------- MODULE PlatformMap ----------------------------
(***************************************************************************)
(* What the controllers may expect of the map of clients they share:       *)
(* GetClient is all they know of it, and between two passes over it the    *)
(* entries come, change and go.  Platforms implements this specification;  *)
(* Targets composes it with the passes of the controllers.                 *)
(***************************************************************************)
CONSTANTS
  Plat,        \* names of platforms
  DefaultKey,  \* the key "default" of the map
  Entry,       \* entries; e.name is the platform that entry e is computed from
  NoEntry

VARIABLE platforms

Key == Plat \union {DefaultKey}

Cleared == [k \in Key |-> NoEntry]

Init == platforms = Cleared

\* A start of the operator: an entry is stored under its platform's name, and the
\* default entry is one of them.
Fill ==
  /\ platforms = Cleared
  /\ platforms' \in [Key -> Entry \union {NoEntry}]
  /\ \A p \in Plat \ {DefaultKey} :
       platforms'[p] # NoEntry => platforms'[p].name = p
  /\ \/ platforms'[DefaultKey] = NoEntry
     \/ \E p \in Plat : platforms'[DefaultKey] = platforms'[p]

\* The operator stops.
Clear == platforms' = Cleared

\* The keys that a platform named p may own.
KeySets(p) == {{p}, {p, DefaultKey}}

Put(p, e) ==
  /\ e.name = p
  /\ \E keys \in KeySets(p) :
       platforms' = [k \in Key |-> IF k \in keys THEN e ELSE platforms[k]]

Remove(p) ==
  \E keys \in KeySets(p) :
    platforms' = [k \in Key |-> IF k \in keys THEN NoEntry ELSE platforms[k]]

Next ==
  \/ Fill \/ Clear
  \/ \E p \in Plat : Remove(p) \/ \E e \in Entry : Put(p, e)

Spec == Init /\ [][Next]_platforms

\* A resource that names a platform never gets the client of another one.
RefIsHonoured ==
  \A p \in Plat \ {DefaultKey} :
    platforms[p] # NoEntry => platforms[p].name = p
=============================================================================
