------------------------- MODULE RecyclingAllocator -------------------------
(***************************************************************************)
(* What a caching device-memory pool promises, without its caches.         *)
(*                                                                         *)
(* Device memory is a set of blocks.  Some blocks are obtained from the    *)
(* driver (mem), and some of those are in the hands of a client (held).    *)
(* The difference, mem \ held, is memory the pool keeps for reuse.  A      *)
(* block is handed out only when no client holds it, and goes back to the  *)
(* driver only when no client holds it any more.                           *)
(***************************************************************************)
CONSTANT Blocks

VARIABLES
  mem,   \* blocks currently obtained from the driver
  held   \* blocks a client may read and write

avars == <<mem, held>>

AInit == mem = {} /\ held = {}

\* A client gets a block: a recycled one, or one fresh from the driver.
Acquire(b) ==
  /\ b \notin held
  /\ held' = held \cup {b}
  /\ mem' = mem \cup {b}

\* A client gives up a block, which stays obtained from the driver.
Release(b) ==
  /\ b \in held
  /\ held' = held \ {b}
  /\ UNCHANGED mem

\* A client gives up a block and it goes back to the driver at once.
ReleaseToDriver(b) ==
  /\ b \in held
  /\ held' = held \ {b}
  /\ mem' = mem \ {b}

\* Blocks nobody holds go back to the driver.
Trim(B) ==
  /\ B \subseteq mem \ held
  /\ mem' = mem \ B
  /\ UNCHANGED held

ANext ==
  \/ \E b \in Blocks : Acquire(b) \/ Release(b) \/ ReleaseToDriver(b)
  \/ \E B \in SUBSET mem : Trim(B)

ASpec == AInit /\ [][ANext]_avars
=============================================================================
