# TLA+ specifications of TuplNative

TuplNative is an unfinished C++ port of the Tupl B+tree store. Much of the
repository is declarations and stubs (`InternalNode::find` throws, `splitLeaf`
throws, `PageDb` is an interface); the logic that exists is in
`libTupl/src/tupl/pvt`. These modules model that logic as it is written, check
it with TLC, and prove the results for instances of any size.

## Inventory

| Part | State | Operations | Hard because | What makes it correct |
|---|---|---|---|---|
| slow `LeafNode` (`slow/Node.*`) | `mChildren` (ordered vector), `mBytes`, `mSplit` | `insert`, `splitAndInsert`, `recordSplit` | unsigned space arithmetic, guards of insert and split that must agree, three moves by iterators, an assert on stale state | entries ordered and conserved; bytes exact; a split always possible when insert refuses; the split key divides the halves |
| slow `InternalNode` | the same, first entry is a sentinel with an empty key | `insert(key)`, `insert(position)`, `splitAndInsert` | the sentinel moves; the split key migrates upwards | no child lost or doubled by a split; the split key migrates and divides |
| slow `Tree` (`slow/Tree.*`) | root, owned leaves and internal nodes | `insert` (recursive) | the parent absorbs the child's split after the recursive call returns; stale `mSplit`; a throw between the split and the filing; null node from `allocateInternal` | no entry lost, no leaf forgotten, the root says what the leaves recorded |
| `PageAllocator` | dirty list threaded through the nodes, `mFlushNext` | `dirty`, `allocPage` | one latch, many callers; a flush stands on a node that moves | iteration in the order of the calls; nothing skipped |
| `ops` with `Latch`, `Cursor`, `CursorFrame` | latches, `tree.root`, cursor stacks, `visitorFrames` | `find`, `unwindAndLockRoot`, `store`, `moveFrames` | latch coupling by concurrent threads; frames moved while their list is iterated | mutual exclusion, no deadlock, some find ends; frames kept and numbered as their entries |
| `KeyComparator`, `lowerBound` (`pvt/Node.cpp`), `KeyLesser`, `KeyEquals` | prefix lengths, `mEqual` | one comparison per probe | skips bytes the bounds are known to share; order of evaluation | the result of a plain lower bound; one total order |
| `ArrayStackGeneric` | `mTop`, inline storage | push, pop, top, empty, full, size, clear | asserts, pointer arithmetic at the limits | a bounded stack |
| `Bytes`, `Buffer` | a pointer and a size | comparison | comparators written by hand | a lexicographic order |
| allocators, `PageDb`, interfaces, errors | none | - | - | not modelled: wrappers and declarations |

How they interact: `Tree` drives `LeafNode` and `InternalNode` by calls and
reads the split a child recorded; `ops` walks the same nodes under their
latches and binds cursor frames to them; `PageAllocator` links the (other,
disabled) `Node` class into its dirty list; `ArrayStackGeneric` holds a
cursor's frames.

## The modules

| Module | Models | Built from |
|---|---|---|
| `NodeOps` | the stateless helpers of `Node::Ops` in `slow/Node.cpp`: lower bound, duplicate, size guards, split point, the moves of a split, `recalculateBytesUsed` | - |
| `LeafNode` | `slow::LeafNode`: `insert` and `splitAndInsert` on every leaf, in any order | `NodeOps` |
| `InternalNode` | `slow::InternalNode`: constructor, insert by key, insert at a position on either side of any entry, `splitAndInsert` | `NodeOps` |
| `EntryStore` | abstract: a set of entries that only grows | - |
| `SlowTree` | `slow::Tree::insert`: the leaves under a root | composes `LeafNode` with the root; implements `LeafNode` and `EntryStore` |
| `DirtyOrder` | abstract: the order `PageAllocator` promises | - |
| `PageAllocator` | `dirty()` on the four kinds of links, with a flush standing in the list | implements `DirtyOrder` |
| `Lexicographic` | `Bytes`, its `operator<`, `KeyLesser`, `KeyEquals` | - |
| `Bisection` | abstract: `lowerBound` with comparisons of whole keys | `Lexicographic` |
| `PrefixSearch` | `KeyComparator` and `lowerBound` of `pvt/Node.cpp`, one step per call of the comparator | implements `Bisection` |
| `LatchCoupling` | `ops::find` by several threads under the nodes' latches | - |
| `Stack` | abstract: last in, first out | - |
| `ArrayStack` | `ArrayStackGeneric` and the loop of `ops::unwindAndLockRoot` over one | implements `Stack` |
| `MoveFrames` | `ops::moveFrames` | - |
| `NodeOps_proofs` | facts about the sequence operators, the halves of a split and byte totals, for both kinds of nodes | `NodeOps` |
| `SlowTree_proofs` | theorems about `LeafNode` by itself, then about the tree | `SlowTree`, `NodeOps_proofs` |
| the other `*_proofs` | theorems about the module they are named after | that module |
| `MC*` | instances for TLC | that module |

Definitions introduced by "Slip" are not used by any specification: each is a
plausible mistake in the definition below it, and the property named for it in
`PROJECT.json` fails when the slip takes that definition's place.

### How state and actions correspond to the code

**`NodeOps`, `LeafNode`, `InternalNode`.** `mChildren` is a sequence of
entries. Keys are integers (for the order of `KeyLesser`, which `TotalOrder`
shows to be one); of a value only the bytes it contributes are kept, and an
entry's size is the sum `verifiedEntrySize` checks. Iterators are offsets from
`begin()`. `capacity() - bytes()` is computed modulo `SizeMod`, as `size_t` is
unsigned. A throw is a step that changes nothing, because every throw in these
functions comes before the first assignment. A failed `assert` (`recordSplit`)
leaves `aborted` set, after which no step is taken; it happens after the entries
have moved and before the bytes are recalculated, and the model keeps that order.

`std::lower_bound` on a vector that is not sorted, which insert by key produces
(see the observations), may return any position where the comparison changes:
`InternalNode!IsBoundary`. `InsertBeside` is the insert at a position that
`Tree::insertRecursive` makes after either kind of split: in front of or behind
any entry (`InternalNode::find`, which would choose it, has no body), with a new
key or one that the node holds already, as the positional insert asks nothing of
it. A child is named by the key it was brought with, so that counting names shows
whether a pointer was lost or doubled. The constructor's entry is not accounted
for in `mBytes`, as in the code; a split recalculates the total and includes it.

**`SlowTree`.** One step is one call of `Tree::insert`. It takes LeafNode's own
actions for the leaf (`InsertThrows`, `InsertStores`, `SplitStores`) and adds
what `insertRecursive` does when the leaf returns (`FileSibling`), so that a
throw of the leaf skips the filing and a failed assert ends it. The build is the
one with asserts. `InternalNode::find` only throws in the code; here it returns
any entry of the root, and what is shown holds for every way down. The tree has
the two levels its constructor makes: `allocateInternal` returns a null pointer,
so the insert that would make a third level dereferences it (`crashed`).
`splitAndInsert` is never refused here, since `RefusedCanSplit` shows that a leaf
that has no space can be split.

**`PageAllocator`.** The body of `dirty()` runs under `mLatch`, so one call is
one step, and concurrent callers are the interleavings of those steps. The three
branches of the code (a node inside the list, the last one, one without
neighbours) are `MoveToEnd`, `StayLast`, `AppendNew` and `StayAlone`. The flush
is not in the repository: `BeginFlush` and `FlushNext` are what the comment in
`dirty()` says `flushNextDirtyNode` does with `mFlushNext`. `dirtied` and
`unflushed` are history variables.

**`PrefixSearch`.** One step is one call of the comparator by
`std::lower_bound` (the library chooses the probe: any entry of the range), with
the outcome that `compareLower` computes from the shared prefix on. `ReadEqual`
is the second argument of `make_pair`, evaluated either before the search or
after it. The comparators of the slow nodes are plain operators of
`Lexicographic`; they are checked and proved on the keys of the search.

**`LatchCoupling`.** `pc` says where in `ops::find` a thread is; taking a latch,
looking for the child, and swapping the two lock objects are steps of their own,
because other threads run between them. Between the swap and the end of its
scope, `childLock` owns the parent's latch and its destructor releases it; both
are one step, as no other thread can tell the difference. No code binds a frame
to a cursor, so a cursor's stack is empty whenever `find` begins, and `find`
starts at the root; `findValue` throws, so every find ends in an exception and
its latch is released by the destructor of `parentLock`. Which child a key leads
to is open, as `InternalNode::lowerBound` is unfinished.

**`ArrayStack`.** `slots` is the storage counted in elements, `mTop` an index
into it. The build (with or without asserts) and `sizeof(T)` are chosen at the
start. `mElems` is an array of `std::aligned_storage<...>`, not of its `::type`,
so it has N bytes whatever `T` is; a construction outside of them is `fate =
"undefined"` and the model says nothing further. An assert that fails is `fate =
"aborted"`. The loop of `unwindAndLockRoot` is modelled frame by frame; its
latches and visitor lists are not.

**`MoveFrames`.** `list` is the source's `visitorFrames`, one step is one round
of the loop: advance `srcIt`, rebase the frame's position, splice. `splice` is
called on the sibling's list with an iterator that belongs to the source's, and
moves the frame to the end of the source's own list (`MovedToEnd`); the sibling's
list is never changed, so it is no variable. What is said of positions is
therefore about the number alone: the frame of an entry that has moved gets that
entry's number in the sibling (`RightPositions`) and stays on the source's list
(`FramesKept`). The build is the one without
asserts: with them no `CursorFrame` can be constructed, because its `Bytes()` has
a null pointer and size 0 and fails the assert in `types.hpp:69`. `before` is a
history variable.

## The runs

| Run | Instance | Shows |
|---|---|---|
| `leaf_api` | 2 leaves, 5 keys, sizes 1-3, capacity 8 | any order of calls: `TypeOK`, `Ordered`, `BytesExact`, `RefusedCanSplit`, `EntriesConserved`, `HalvesBalanced`, `LeftSplitSeparates` |
| `tree` | 3 leaves, 5 keys of 2 sizes, entries of 1 and 2 bytes, capacity 8 | `Tree::insert` by any way down: `FiledAsRecorded`, `LeavesFiled`, `SplitLeavesTwo`, and that the tree implements `LeafNode` (`DrivesLeaves`) and `EntryStore` (`KeepsEntries`) |
| `internal_api` | 2 nodes, 5 keys of 2 sizes, capacity 8, no call beyond 7 entries | any order of calls: `BytesCounted`, `RefusedCanSplit`, `ChildrenConserved`, `SplitKeyMigrates` |
| `dirty_list` | 5 nodes | `TypeOK`, `Linked`, `NoneSkipped`, and that the links implement `DirtyOrder` (`IteratedInOrder`) |
| `prefix_search` | all keys of 0-3 bytes out of two values, every search vector of up to 4 of them | `PrefixShared`, `Partitioned`, `EqualTells`, `AssertFailsAtEmpty`, `ExactSound`, `TotalOrder`, and that the search implements `Bisection` (`ComparesInFull`) |
| `latch_coupling` | 3 threads, 6 nodes on 3 levels | `TypeOK`, `LatchesOwned`, `SearchesLatched`, `NoOvertaking`, `SomeFindEnds`, no deadlock |
| `stack` | capacity 5, elements of 1-3 bytes, 2 values, both builds | `Constructed`, and that it implements `Stack` (`IsStack`) |
| `frames` | 3 frames, 3-6 entries | `FramesKept`, `RightPositions`, `LoopEnds` |
| `leaf_right_key`, `leaf_capacity`, `tree_left_key`, `frames_end` | as small as shows it (all but the last on `SlowTree`) | violations: see the findings |

### Why the bounds are enough

* **Leaves.** With capacity 8 the largest entry is 2 bytes, a quarter, so size 3
  is the one `verifiedEntrySize` throws at; entries of 1 and 2 give nodes that
  are exactly full, one short of it, and refusing. A split needs 3 entries; 5
  keys put the new one at every place relative to the cut, for odd and even
  numbers of entries, in both directions.
* **Tree.** Five entries of 2 bytes split a leaf, and with three leaves either
  half can be filed, filed again by a later insert, and split a second time
  (where the assert ends the run). The key in the middle takes 2 bytes: with a
  pointer of 1 byte it is a leaf's entry and not the root's, which is the throw
  between the split and the filing. Each filing takes bytes of the root, and a
  stale one is repeated until the root is full, so the null pointer is reached
  too. The capacity run needs 20 bytes and 8 keys, because the overflow needs a
  half of large entries that is itself more than half full.
* **Internal nodes.** A pointer takes 1 byte and a key 1, so four keys fill a
  node of 8 bytes and the fifth is refused; the largest key is 2 bytes long and
  with its pointer too big. A key may be filed several times over. No call is
  made when the two nodes together hold more than `MaxEntries`, 7, entries,
  which leaves room for a full node and its sibling. Splits of ordered nodes in
  both directions, with the new key at, before and behind the cut, are reached,
  and refused duplicates; a second split of the same node and a split key that is
  empty are not, and rest on the theorems.
* **Dirty list.** The code looks at a node, its two neighbours, the first and
  the last; five nodes are the smallest list in which all are different.
* **Prefix search.** Three bytes give a prefix, the byte that differs and a
  remainder; four entries give several probes, so that a prefix length is used
  after the range has moved past the entry it came from. The empty key may be
  stored (`pvt/Node.hpp:200` allows lengths from 0) but not searched for, which
  the assert at `pvt/Node.cpp:155` rules out.
* **Latches.** Three threads and three levels have one thread waiting for one
  that waits for a third, and two threads in different subtrees.
* **Stack.** An odd capacity of 5 has depths below, at and above the half, a full
  stack and an empty one; elements of 1 byte fit all, of 2 bytes two, of 3 bytes
  one. `MaxSizeOf` bounds the element; larger ones fit fewer still.
* **Frames.** Two frames can take turns and a third can stand between them; a
  node of six entries has positions in front of the cut, behind it, and far
  enough behind it to be rebased to one that is behind it again. Sizes begin at
  3, below which no leaf is split.

Deadlock is not checked where the system stops by design (no keys or leaves left
to use, an assert has failed, a search or a loop has ended).

### Fairness

`LatchCoupling!FairSpec` assumes weak fairness of the steps of `find`, for each
thread. A thread inside `find` runs on unless it waits for a latch, and one that
waits for a latch that stays free gets it. That a latch is handed out fairly is
not assumed, because `Latch.hpp` acquires unfairly; a thread may starve, and what
is claimed is that some find comes to an end. Nothing is assumed of a thread that
has not called `find`.

`MoveFrames!Spec` assumes weak fairness of the loop's round: the loop belongs to
one thread that holds the latches it needs and waits for nothing, so it only
stops when it is done.

## Findings

Each is a run that ends in a violation of what the repository says.

* **`leaf_right_key`** (`slow/Node.cpp:192`): a new key that lands exactly at the
  cut is moved into the RIGHT sibling in front of the key that becomes the split
  key, under which the tree files that sibling. Node.cpp:326-327: "a child node
  associated with 55, will only have values GE than 55".
* **`leaf_capacity`** (`slow/Node.cpp:186`): the cut is by number of entries, so
  a half can exceed the capacity; from then on the unsigned difference wraps and
  the node refuses nothing. It also happens to leaves that `Tree::insert` splits.
* **`tree_left_key`** (`slow/Tree.cpp:73`): after a LEFT split the sibling, the
  lower half, is filed under the split key, and the old node keeps its entry.
  Node.cpp:305-306: "a child whose keys are GE than itself"; Node.cpp:332-334 has
  the existing entry repointed and the old node filed.
* **`frames_end`** (`ops.cpp:233`): `dstEndIt` is the end of the source's list, so
  frames are spliced to the end of the list being walked; two frames whose
  position stays as it is take turns for ever. `LoopEnds` of the run `frames`
  shows that it takes two.

### Observations without a run

* Nothing clears `mSplit` (`slow/Node.hpp:84`), so the second split of any leaf
  fails `recordSplit`'s assert; `SlowTree` and `LeafNode` contain the step. For
  the same reason `hasSibling()` stays true and each later insert through that
  child files its sibling again (`FiledAsRecorded` allows the repetition).
* `splitAndInsert` accepts an entry that fits exactly, and then may leave one
  entry in a half, in spite of `Node.cpp:73`; Tree never asks for it
  (`SplitLeavesTwo`).
* `make_pair` (`pvt/Node.cpp:163`) may evaluate `equal()` first, and then reports
  no match for a stored key, in spite of the comment at line 148; no property
  asks for the match. It never reports one that is not there (`ExactSound`).
* The assert at `pvt/Node.cpp:120` fails whenever an empty stored key is probed,
  although `pvt/Node.hpp:200` has keys of 0 bytes. `AssertFailsAtEmpty` says that
  this is the only case.
* Insert by key (`slow/Node.cpp:120`) emplaces one position too early, so the
  first key comes to stand before the sentinel, in spite of line 306. The search
  begins behind the first entry, so the same key is not found there and is filed
  again, in spite of "duplicate key not allowed" (line 115). `ChildrenConserved`
  counts with repetitions and says that a call files the child it was given once
  more, whether or not it was filed before.
* The positional insert that `Tree` uses takes a key that is in the node already,
  and the stale `mSplit` brings one with each later insert. `splitAndInsert` then
  throws "duplicate key not allowed" (line 182), which nothing in `Tree` handles.
  `RefusedCanSplit` of `InternalNode` says that this is the one reason it has to
  throw after a FAILED_NO_SPACE.
* A RIGHT split of an internal node whose key lands exactly at the cut sends it to
  the sibling, below the key that migrates: the same comparison as in the finding
  `leaf_right_key`. `SplitKeyMigrates` has it as its exception. The new entry
  comes in front of the one that has just given up its key, and the sibling of a
  split keeps its constructor's entry, so that it has two without a key. A node
  that has been a sibling several times over has as many, and once they fill more
  than half of it the key that migrates to its parent is the empty one
  (`SplitKeyMigrates` admits it; the proof met this case, no run of this size
  does).
* When `recordSplit`'s assert fails the entries have moved and the bytes have not
  been recalculated; `RefusedCanSplit` of `InternalNode` speaks of nodes before
  that.
* `full()` and `empty()` of the stack assert the answer they are asked for
  (`ArrayStackGeneric.ii:60`, `:66`), so no build with asserts can use it. The
  storage has N bytes (`.hpp:68`). `size()` is the number of free slots, so
  `unwindAndLockRoot` pops that many frames and not those there are, in spite of
  "Restore the cursor to the root" (`ops.cpp:104`): with few frames it pops what
  is not there, with many it leaves some. `top() const` calls a `back()` that
  does not exist.
* `moveFrames` leaves every frame on the source's list (`ops.cpp:233`), in a LEFT
  split and in a RIGHT one, although it calls `splice` of the sibling's (`:251`).
  A frame that is met again with a position still behind the cut is rebased a
  second time.
* The leaf has split when its split key turns out to be too long for an internal
  node, the exception that `LeavesFiled` makes: one half is then reachable from
  nowhere (`slow/Tree.cpp:73`). The same holds when the root is full and
  `allocateInternal` returns null (`:77`). `KeepsEntries` speaks of what the
  leaves hold and not of what can be reached.
* In a LEFT split `moveFrames` (`ops.cpp:245`, `:258`) rebases frames behind the
  insert position, including those behind the cut, one further than the entries
  that stay in the source end up.
* The default constructor of `Bytes` fails its own assert (`types.hpp:69`).
  `operator<=` of `Bytes`, which nothing calls, compares bytes by `<=` as if that
  were "less", and so answers by the first byte alone (`types.hpp:83`).
* `realloc` to size 0 (`MallocAllocator.cpp:35`) may free the block and return
  null, and then throws `bad_alloc`.

## The proofs

Every safety property of the passing runs, invariant, action property or
refinement, is also a theorem, proved for every value of the constants from the
named assumptions of the modules, which TLC evaluates in the runs:
`CapacityAssumption`, `LeafAssumption`, `TreeAssumption`, `InternalAssumption`
(positive key sizes, any natural pointer size, no key is the empty one,
`NoSplit` is not a record), `NullAssumption` and `NodesAssumption` (there are
finitely many nodes), `StackAssumption`, `FramesAssumption` (there are finitely
many frames, `End` is none) and those of `PrefixSearch`. `LatchCoupling` assumes
finitely many threads (`ThreadsAssumption`) and a tree: one parent at most for
each node, none for the root, no node its own child.

* **`NodeOps_proofs`**. `BytesUsed` is a recursive function over positions. That
  it exists, has natural values and grows by the size of an inserted entry is
  proved by the least position at which it would fail (`LeastNatural`, from the
  well-foundedness of the naturals), which is how induction is done here.
  `HalvesPointwise` says, for either direction of a split, where each entry of
  the two halves comes from, and `HalvesCover` that nothing is left out;
  `TotalOfFew` bounds the total of up to three entries, from which both kinds of
  nodes get that a refusal allows a split.
* **`SlowTree_proofs`**, leaves. The invariant is `NodesOK /\ Ordered`: types
  alone do not say that `lower_bound` returns the right place, and order alone
  does not say that a sibling is fresh. `InsertAt` into an ascending sequence at
  its lower bound is ascending, and so is every piece `SiblingChildren` and
  `RemainingChildren` cut from it. `EntriesConserved`, `HalvesBalanced` and
  `LeftSplitSeparates` follow step by step from it. A second invariant,
  `BytesInv`, adds that no stored entry exceeds a quarter of the node and that
  `mBytes` is the total. It needs the first, because only the place `lower_bound`
  returns makes `InsertAt` add one entry; and `RefusedCanSplit` needs the quarter:
  two entries leave half the node free, so a leaf that refuses has three.
* **`SlowTree_proofs`**, the tree. A step of the tree is a step of `LeafNode` or
  changes no leaf (`TreeImplementsLeafNode`), so LeafNode's invariants hold in
  the tree. `FiledAsRecorded` needs that a recorded split is never overwritten,
  and `LeavesFiled` that the one leaf a step creates is the sibling its parent
  then reads. `TreeImplementsStore` follows from `EntriesConserved`'s lemmas: what
  one leaf loses the fresh one has. For `TreeSplitsLeaveTwo`, the tree splits only
  what has refused an entry, and refusing takes four entries, not just the three
  that `splitAndInsert` asks for: three of a quarter leave room for a fourth
  (`RefusalIsLong`). The cut then leaves two on each side before the new entry
  comes in. Called directly, `splitAndInsert` gives no such promise.
* **`InternalNode_proofs`**. `IInv` is inductive. `Typed` and `Untouched` are
  types and the freshness of siblings; `Modest` says that an entry is at most a
  quarter of the node or a sentinel's bare pointer, which a quarter of a small
  node need not hold; `BytesCounted` says which nodes still owe the constructor's
  pointer. None stands alone: a split reads `bytes` of two nodes, one of them
  new. The order of keys is *not* part of it, because insert by key does not keep
  it. `RefusalAllowsSplit` puts the owed pointer and `TotalOfFew` together: what is
  refused leaves `splitAndInsert` only the duplicate to object to.
  `FiledOnceMore` follows the child, not the key, since the key at the cut is
  swapped out before its entry moves, and counts how often each child occurs in
  the two nodes before and after; `SplitKeyMoves` assumes an ordered node, as the property does, and
  places the key at the cut between the halves.
* **`ArrayStack_proofs`**. `Constructed` is inductive as it stands: a push that
  is defined lies within the N bytes, and so within the slots whatever the size
  of an element. The refinement compares two functions on `1 .. mTop + 1` after each
  operation.
* **`PageAllocator_proofs`**. `FieldsOK /\ Linked` is inductive: `Linked` says that
  all link fields spell out the history `dirtied`, so each branch of `dirty()`
  has to be shown to spell out the history with one node moved to the end. The
  proof that a flush skips nothing adds `NoneSkipped` to it. For the refinement
  of `DirtyOrder`, `Hops` (a recursive function) is shown to have exactly one
  solution, the history with null behind it (`HopsExist`, and `HopsUnique` by the
  least place at which two solutions would differ); no more nodes are listed than
  there are, so `Chain` ends before its bound and *is* the history
  (`ChainIsHistory`), which `DirtyOrder` describes.
* **`PrefixSearch_proofs`**. Besides types, the invariant has two witnesses: if
  the lower prefix length is positive, some entry in front of the range shares
  that many bytes with the key, and likewise behind the range. All entries left
  lie between two strings that share the smaller prefix with the key, so they
  share it themselves; hence comparing from there on is comparing in full, which
  is the refinement of `Bisection`. `AssertHolds` adds that an entry
  still ahead cannot end with a prefix of one byte or more: it comes after the
  lower witness, which has those bytes and others behind them. `EqualIsExact` adds that an equal entry outside the range
  has been probed, and rests on the search vector being ascending. That two byte
  strings are equal or differ at a first position, on which `KeysTotallyOrdered`
  rests, is again a least position.
* **`LatchCoupling_proofs`**. `LatchesOwned` needs to know which locks a thread
  owns at which place (`LocksMatchPc`), and `NoOvertaking` that a thread counted
  as ahead is inside the tree (`AheadInside`); that a thread overtakes nobody when
  it latches a child is because the one ahead would have to be on that child,
  whose latch is free, or on the parent, whose latch the thread holds. There is
  no deadlock because the finds inside stand in line (`InLine`: of any two one is
  ahead, and being ahead is transitive). A find that waits for a child's latch
  waits for a thread on that child, which `NoOvertaking` says is ahead of it; so
  the first in line waits for nobody (`FirstNeverWaits`), a line of finitely many
  has a first, and the threads at the root's latch wait only while someone is
  inside (`NoDeadlock`).
* **`MoveFrames_proofs`**. `Listed` says that the list holds every frame once and
  positions stay in the node. That a frame is moved to the end of the list being
  walked makes `RightPositions` the harder half: the loop has no index, so the
  invariant `WInv` has one as a witness (`Progress`): the iterator is at place
  `at`, everything in front of it is settled, and what is behind may be settled
  too, having been linked in behind. A round either advances `at` or moves a
  settled frame behind it while the rest closes up, and `at` stays (`Rotated`).
  The invariant leaves out the frames in `Stuck`, and those whose rebased
  position is behind the cut again: when they are met a second time they are
  rebased a second time, which is a property of the code.
  `RoundsRunOut` measures the loop. A frame that the iterator has yet to meet is
  some positions away from where it is passed without a splice, for good; each
  splice brings it nearer (`Distance`). A round that brings none nearer leaves
  fewer places in front of the iterator, or takes the one frame in `Stuck` to the
  end of the list (`Rest`). `Settling` says that frames outside `Stuck` never get
  where those are and stay in front of twice the cut. With two stuck frames the
  measure fails, and so does the loop: the finding `frames_end`.

Only model-checked: `SomeFindEnds` and `LoopEnds`, because liveness under fairness
is outside the proof system's reach. What they rest on besides fairness is proved:
`NoDeadlock`, and `RoundsRunOut` under the condition `LoopEnds` has. The properties of the violation runs are
refuted, not proved.

## Not modelled

* `ops::store` beyond its first statement: no code binds a frame to a cursor, so
  it always throws "unpositioned". The latches that `unwindAndLockRoot` takes,
  which need bound frames, and with them the order of latches at `ops.cpp:87`;
  the root that is read twice (`ops.cpp:109`, `:114`), which nothing replaces.
* `LeafNode::insert(position, key, value)`, which trusts the position its caller
  computed and is called only by `store`, and `moveEntries`, which nothing calls.
* Stubs that throw or assert: `InternalNode::find` and `lowerBound` (left open in
  the models above them), `bubbleSplitUpOneLevel`, `splitLeaf`, `findValue` (its
  throw is modelled), `slow::Tree::find`, which is declared only.
* A tree of three levels, which `allocateInternal` rules out.
* The allocators, `PageDb`, `NonPageDb`, the public interfaces, `DatabaseConfig`
  and the exception classes: wrappers of the C library, declarations, a builder
  of settings nothing reads.

## Plan

Written in this order: `NodeOps` and `LeafNode`; `PageAllocator`; `PrefixSearch`;
`InternalNode`; `LatchCoupling`; their proofs; `SlowTree`, `ArrayStack`,
`MoveFrames`, and the proofs of the first two; the byte totals.

`InternalNode`'s theorems, those of `MoveFrames`, `TreeSplitsLeaveTwo`,
`LinksImplementOrder`, `NoDeadlock` and `RoundsRunOut` came last.

What is left:

1. The root of `SlowTree`: its `mBytes` stays one pointer short of the total of
   its entries, and `allocateInternal` is reached only when no pointer fits.
2. `store` and `unwindAndLockRoot` with frames bound and the root replaced, once
   the code does either.
