-------------------------------- MODULE Cib --------------------------------
(***************************************************************************)
(* The circular integer buffer of core/lib/include/cib.h: two free-running  *)
(* counters of the machine word and a mask, which is size - 1 and therefore *)
(* all ones for a buffer without places.                                    *)
(***************************************************************************)
EXTENDS Integers

CONSTANT Half   \* INT_MAX + 1, a power of two: half of the values of a word

ASSUME CibAssumption == Half \in Nat \ {0}

Word == 2 * Half

(* The sizes of buffers: zero and the powers of two below the half of a word. *)
Sizes == {0} \cup {s \in 1 .. Half - 1 : Half % s = 0}

CibType == [read : 0 .. Word - 1, write : 0 .. Word - 1, mask : 0 .. Word - 1]

(* cib_init()                                                               *)
CibInit(size) == [read |-> 0, write |-> 0, mask |-> (size - 1) % Word]

(* (int): the two's complement value of a word.                             *)
Signed(u) == IF u < Half THEN u ELSE u - Word

(* `u & mask`, the mask being all ones below a power of two.                *)
Masked(u, mask) == u % (mask + 1)

CibSize(c) == (c.mask + 1) % Word
CibAvail(c) == (c.write - c.read) % Word
(* Mutant of CibFull: full only with one element more than places.          *)
CibFullLate(c) == Signed(CibAvail(c)) > Signed(c.mask) + 1

CibFull(c) == Signed(CibAvail(c)) > Signed(c.mask)

(* cib_put_unsafe() and cib_get_unsafe(): the place, and the counters after. *)
PutPlace(c) == Masked(c.write, c.mask)
GetPlace(c) == Masked(c.read, c.mask)
CibPut(c) == [c EXCEPT !.write = (@ + 1) % Word]
CibGet(c) == [c EXCEPT !.read = (@ + 1) % Word]

(* cib_peek_at_unsafe()                                                     *)
PlaceAt(c, offset) == Masked((c.read + offset) % Word, c.mask)
=============================================================================
