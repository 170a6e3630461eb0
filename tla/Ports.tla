-------------------------------- MODULE Ports --------------------------------
(***************************************************************************)
(* The port register: what it answers about the ports of the projects on   *)
(* record, and how it looks for free ones.  Pure: a project is the         *)
(* function of its three ports, the settings are parameters.               *)
(***************************************************************************)
EXTENDS Integers

PORT_TYPES == {"backend", "frontend", "db"}
NoPort     == 0  \* a column that is NULL, and a search that raises

\* _get_all_used_ports, and get_all_allocated_ports, which keeps the types apart.
Used(projects)            == {p[t] : p \in projects, t \in PORT_TYPES} \ {NoPort}
Allocated(projects, type) == {p[type] : p \in projects} \ {NoPort}

\* _get_reserved_ports: a range that reads backwards, and what is no range, is skipped.
Reserved(ranges) == UNION {r[1]..r[2] : r \in ranges}

\* check_port_available, of a port in the range; the project's own do not count.
Available(port, projects, self) == \A p \in projects \ self : \A t \in PORT_TYPES : p[t] # port

\* get_conflict_project_name: one of the others that has the port.
Conflicts(port, projects, self) == {p \in projects \ self : \E t \in PORT_TYPES : p[t] = port}

\* suggest_next_port counts up from the start of the range.  What the settings
\* reserve is not looked at.
suggest_next_port(projects, lo, hi) ==
  LET from[port \in lo..(hi + 1)] ==
        IF port > hi THEN NoPort ELSE IF port \notin Used(projects) THEN port ELSE from[port + 1]
  IN from[lo]

\* suggest_next_port_block goes on by whole blocks, used and reserved ports aside.
suggest_next_port_block(projects, ranges, size, lo, hi) ==
  LET blocked == Used(projects) \cup Reserved(ranges)
      from[base \in lo..(hi + size)] ==
        IF base + size - 1 > hi THEN NoPort
        ELSE IF base..(base + size - 1) \cap blocked = {} THEN base ELSE from[base + size]
  IN from[lo]

-----------------------------------------------------------------------------
(* Claims, for given projects and settings *)

\* A free block: in the range, of nobody, not reserved, on the grid of blocks.
FreeBlocks(projects, ranges, size, lo, hi) ==
  {b \in lo..(hi - size + 1) : (b - lo) % size = 0 /\
     \A port \in b..(b + size - 1) : Available(port, projects, {}) /\ port \notin Reserved(ranges)}

\* The suggested block is the first free one, and none is refused that is free.
BlockIsFirstFree(projects, ranges, size, lo, hi) ==
  LET free == FreeBlocks(projects, ranges, size, lo, hi)
      b    == suggest_next_port_block(projects, ranges, size, lo, hi)
  IN IF free = {} THEN b = NoPort ELSE b \in free /\ \A c \in free : b <= c

\* A suggested port is free for everybody, and the register names nobody for it.
PortIsFree(projects, lo, hi) ==
  LET p == suggest_next_port(projects, lo, hi) IN
  IF lo..hi \subseteq Used(projects) THEN p = NoPort
  ELSE p \in lo..hi /\ Available(p, projects, {}) /\ Conflicts(p, projects, {}) = {}

\* A project keeps the port it has: its own does not stand in its way, and while
\* no two share a port nobody else's does.
OwnPortStays(projects) ==
  (\A p, q \in projects : p # q => Used({p}) \cap Used({q}) = {}) =>
     \A p \in projects : \A port \in Used({p}) : Available(port, projects, {p})
=============================================================================
