# TLA+ models of the iowow extendable file

This directory models the extendable, partially memory-mapped file of
`src/src/fs/iwexfile.c` (`IWFS_EXT`). It has TLA+ modules, the TLC
configurations that check them, and `PROJECT.json`. `PROJECT.json` lists the
components, runs, mutants, the map from every definition to the C lines it
translates, the findings, and the hazards.

## The system

`iwexfile.c` wraps a positional-I/O file (`IWFS_FILE`, outside `src/`) in an
object `EXF` with these parts:

| Part | State in `EXF` / `MMAPSLOT` | Operations |
|---|---|---|
| size management | `fsize`, `psize`, `maxoff`, the file on disk | `_exfile_truncate(_lw)`, `_exfile_ensure_size(_lw)` |
| resize policy | `rspolicy`, `rspolicy_ctx` | `_exfile_default_szpolicy`, `iw_exfile_szpolicy_fibo`, `iw_exfile_szpolicy_mul` |
| slot registry | sorted doubly linked list of `MMAPSLOT {off, len, maxlen, mmap}` | `_exfile_add_mmap`, `_exfile_remove_mmap(_wl)`, `_exfile_acquire_mmap`, `_exfile_release_mmap`, `_exfile_probe_mmap`, `_exfile_initmmap(_slot)_lw` |
| I/O dispatch | none of its own | `_exfile_read`, `_exfile_write`, `_exfile_copy`, `_exfile_sync`, `_exfile_sync_mmap`, `_exfile_state` |
| locking | `pthread_rwlock_t *rwlock`, `use_locks` | `_exfile_rlock`, `_exfile_wlock`, `_exfile_unlock(2)` |
| lifecycle | all of the above | `iwfs_exfile_open`, `_exfile_close`, `_exfile_initlocks`, `_exfile_destroylocks` |

The parts interact as follows:

- Every call takes the rwlock:
  - `read`, `copy`, `acquire_mmap`, `probe_mmap`, `sync` and `state` take the read lock;
  - `truncate`, `add_mmap` and `remove_mmap` take the write lock.
- `write` and `ensure_size` start under the read lock. When the file must grow, they drop it, take the write lock and test the size again (the lock "upgrade").
- Growth asks the policy for a size, validates it, and truncates.
- Every size change remaps every slot (`_exfile_initmmap_lw`), so that a slot maps `min(maxlen, fsize - off)` bytes.
- A read or write walks the sorted slots. It `memcpy`s the parts inside a mapping and does positional I/O for the gaps.
- `acquire_mmap` returns a pointer while still holding the read lock, and `release_mmap` drops it.

These behaviours are hard to test:

- the lock upgrade, during which another thread can change the size;
- a pointer used while other threads want to remap;
- a failure between the steps of truncate or add_mmap (ftruncate, mmap, munmap);
- arithmetic at `OFF_T_MAX` and at page boundaries.

## Modules

- **`ResizePolicy.tla`** holds the three policies as operators, taken from the C code: the default policy, Fibonacci, and multiplier with its `uint64` divide-then-multiply. The Fibonacci context is `NULL` until the policy's lazy `calloc`. If that `calloc` fails (the `nomem` argument), the default policy answers and the context stays `NULL`. The `req = -1` call frees the context. The module also holds `IW_ROUNDUP`/`IW_ROUNDOWN` and the acceptance test of `_exfile_ensure_size_lw`.
- **`ExFile.tla`** is the object and its threads. `ExFile` extends `ResizePolicy`.
  - **State.**
    - `fsize` is `impl->fsize`.
    - `dsize` is the size of the file on disk.
    - `slots` maps `off` to `[maxlen, len, mmap, next, prev]`. A slot is named by its `off`, so `next` and `prev` are the offsets of the linked slots, or `NULL`.
    - `mmslots` is `impl->mmslots`, the offset of the head slot.
    - `maps` is a bag of live mappings `[off, len]`.
    - `rsctx` is the policy context: `NULL`, or the Fibonacci policy's `prev_sz`.
    - `lock` is `[writer, readers]`.
    - `pc[t]` is each thread's call: the operation, where it is, its arguments, the pointer it holds, and its return code.
    - `io[t]` is the set of byte ranges its last read, write or copy moved. Each range is tagged `mem` (memcpy through a mapping) or `pos` (positional I/O).
    - `nfaults` counts injected system-call failures.
  - **System calls.** `FTruncate`, `MMap` and `MUnmap` act on `dsize` and `maps`. Each may fail when its name is in `FAULTS`, at most `MAX_FAULTS` times in a behaviour, and so may the Fibonacci policy's `calloc`. `ftruncate` also refuses a negative length (EINVAL) and a handle that is not open (EBADF), with or without injected faults. `st` also carries `impl->omode` and what `impl->fh` is: the file, no open descriptor, or another file.
  - **`off_t` arithmetic.** `OffT` wraps a value into the two's complement range whose largest value is `OFF_T_MAX`. `RoundUpOffT` is `IW_ROUNDUP` on an `off_t`: `size + psize - 1` can wrap.
  - **`_lw` functions.** These run with the lock held: `InitSlotLw`, `InitMmapLw`, `TruncateLw`, `TruncFail`, `EnsureSizeLw`, `AddMmapLw` and `RemoveMmapWl`. Each is an operator from a record `st` (the object's state plus the return code) to a new `st`. Each translates the C function with its early returns and its order of assignments, e.g. `s->len = nlen` before `mmap`, and `fsize` set before `ftruncate`. An action applies the result in one step, because the C runs it under the write lock.
  - **Slot list.** `List` follows `next` from `mmslots`. It is bounded by the number of slots plus one, so a cycle shows as a list that is too long. `AddWalk` is the insertion walk of `_exfile_add_mmap`: the overlap test, then the break at the first slot past the new one. `LinkSlot` has the three link cases: first slot, before a slot, and after the tail found as `head->prev`. `UnlinkSlot` has the three unlink cases of `_exfile_remove_mmap_wl`.
  - **Walk.** `Walk` is the loop shared by `_exfile_read` and `_exfile_write`, as a recursive operator over the sorted slots. Reading the slots in offset order is justified by `SlotListConsistent`.
  - **Actions.** There is one action per lock-delimited step of each call:
    - `WriteBegin` / `EnsureBegin` → `Upgrade` → `WLock` → `Grow` → `Finish`;
    - `ReadBegin` → `Finish`;
    - `Truncate`, `AddMmap`, `RemoveMmap` (in `WriteLocked`) → `Finish`;
    - `Acquire` → `Release`;
    - `Probe`, `SyncMmap`, `Sync`, `State` (in `ReadLocked`) → `Finish`;
    - `Finish`, `Release` and `Upgrade` all release the lock with `Unlocked` (`_exfile_unlock`/`_exfile_unlock2`);
    - `Copy` → `Finish`.
- **`ExFileAbstract.tla`** is what the file promises its callers. It has no locks, slots or system calls. Its state is:
  - `size`: page aligned and within maxoff;
  - `windows`: disjoint, aligned windows, each with its maximal length;
  - `pins`: the window each thread holds through `acquire_mmap`.

  Sizes and windows change only while nobody holds a pin.
- **`ExFileRefinement.tla`** maps ExFile onto it:
  - `size <- fsize`;
  - `windows <- maxlen` of each slot;
  - a thread's pin is the offset of a slot whose mapping it acquired.

  `ExFileRefines == Abs!ASpec` is checked as a temporal property.
- **`ExFileLife.tla`** extends ExFile with three variables:
  - `life` (`unopened`, `open`, `closed`) models `f->impl` being set and freed;
  - `handles` counts the backend files the instance has open;
  - `fstate` says whether the `omode` and `fh` that open copied from the backend's `state()` are real (`valid`) or read from the uninitialised stack record after `state()` failed (`garbage`).

  Its actions are:
  - `Open`: `iwfs_exfile_open` from the size on disk, which may be unaligned, on a new instance or on one closed before. It grows the file to `initial_size`, or re-truncates an unaligned size. Any one call of open may fail, as chosen from `OpenFaults`: `iwfs_exfile_init`, `_exfile_initlocks`, `iwfs_file_open`, `iwp_fstat` or `state()`. If `state()` fails, `StateResult` lets `omode` and `fh` take any value, and the truncation's return code overwrites the failure. A failed open frees `impl` but keeps the backend file open if `iwfs_file_open` succeeded.
  - `CloseBegin`: the write lock of `_exfile_close`.
  - `CloseEnd`: removes every slot along the `next` chain (`RemoveAll`), keeping the first error and going on after a failed removal. It then closes the backend, frees the policy context, and destroys the lock (`DestroyLocks`).
  - `WLockClosed`: a writer that reaches `_exfile_wlock` after close.

  ExFile's calls run only while the instance is open, with a valid `fstate`.
- **`ExFileNested.tla`** extends ExFile with a caller that calls `write` between `acquire_mmap` and `release_mmap`:
  - `HeldWrite`: the nested read lock succeeds, and `_exfile_unlock2` drops only the nested hold.
  - `NestedWLock`: the thread's `_exfile_wlock`, which is never enabled because the thread itself is still a reader.
- **`MCExFile.tla`** instantiates ExFile and the refinement. It sets:
  - pages of 2 bytes, `OFF_T_MAX = 5`, `maxoff = 4`;
  - files of 2 bytes at open, and two threads;
  - the argument sets, and the state constraint `MapsBound`. That constraint is needed because the add_mmap leak (below) makes the bag of mappings unbounded.
- **`MCExFileLife.tla`** and **`MCExFileNested.tla`** do the same for the two extensions, with smaller argument sets. The lifecycle instance has `OFF_T_MAX = 7` and `maxoff = 6`, so that slots at 0, 2 and 4 fit and `remove_mmap(2)` unlinks a middle slot.

The `map` in `PROJECT.json` gives, for every definition, the C lines it translates. `RangesOverlap`, `RoundUp`/`RoundDown` and `Fail` (first error wins, `IWRC`) model macros from headers that are not under `src/`. They are written from the spec.

## Runs

| Run | cfg | Expect | What it shows |
|---|---|---|---|
| safety | `MCExFile.cfg` | pass | See the detail below. |
| liveness | `MCExFileLive.cfg` | pass | `CallsReturn`: every call returns, including a write that upgrades while another thread holds or wants the lock. |
| lifecycle | `MCExFileLife.cfg` | pass | Open (with the failures of init, initlocks and the backend open), close and reopen around the calls, under the Fibonacci policy with a `calloc` that may fail. See the detail below. |
| add_mmap_leak | `MCExFileLeak.cfg` | violation | `NoLeakedMapping`: an overlapping `add_mmap` leaks the mapping it made before the overlap test. |
| mmap_fail_io | `MCExFileMmapFail.cfg` | violation | `IOSafe` with mmap failures: the slot keeps `len > 0` and `MAP_FAILED`, and the next write memcpys through it. |
| grow_fail_size | `MCExFileGrowFail.cfg` | violation | `FailedTruncateKeepsSize`: a growing truncate whose remap fails returns an error with `fsize` changed (no `RCGO(rc, truncfail)` at line 185). |
| copy_src_bounds | `MCExFileCopy.cfg` | violation | `CopySafe`: `copy(2, 2, 0)` over a 2-byte mapping memmoves from beyond it. |
| mul_policy | `MCExFileMul.cfg` | violation | `PolicyHonoured`: the multiplier policy with `n = dn = 2` answers 2 for a request of 3, so ensure_size fails. |
| open_unaligned | `MCExFileUnaligned.cfg` | violation | `OpenSizeConsistent`: opening a 3-byte file calls `_exfile_truncate_lw(f, impl->fsize)`. That call returns early because the size is unchanged, so `fsize` stays unaligned. |
| close_upgrade | `MCExFileClose.cfg` | violation | `NoCallSpansClose`: close frees impl and its lock while a writer sits between the `unlock2` and the `wlock` of its upgrade. |
| nested_write | `MCExFileNested.cfg` | violation | `CallsReturn`: a thread holding `acquire_mmap` that writes past the end of file waits forever for its own read lock. Every writer of the other thread then waits behind it. |
| open_failure | `MCExFileOpenFail.cfg` | violation | `OpenAllOrNothing`: an open whose `iwp_fstat` or `state()` fails returns an error with the backend file still open (line 798). The property also states that an open instance has the backend's `omode` and `fh`, which an unchecked failed `state()` (line 788) would break; the trace TLC reports is the leak. |

The safety run has two threads running every call, and ftruncate may fail once. Truncates to -1 and to `OFF_T_MAX` are among the calls: the second wraps, takes the shrink path, unmaps every slot, fails in ftruncate, and truncfail restores the size and remaps. The run checks these properties:

- `IOSafe`: every finished read or write moved each byte once, and every memcpy lies inside a live mapping backed by the file.
- `SlotsRealised`: every slot maps exactly what `initmmap_slot_lw` would map for the current size.
- `SlotsDisjoint`: no two slots overlap.
- `SizeConsistent`: `fsize` is the size on disk, page-aligned, and within maxoff.
- `SlotListConsistent`: following `next` from `mmslots` visits every slot once, in ascending order, and each `prev` is the slot before (the head's is the tail).
- `AcquiredStable`: a pointer from `acquire_mmap` stays live and unchanged until release, and the pointer `probe_mmap` looks up stays so until its unlock.
- `ExclusiveMutation`: state changes only under the write lock.
- `EnsuredSize`: an `ensure_size(sz)` that returns success leaves `fsize >= sz` until it returns. This holds on the fast path under the read lock and after the upgrade, where another thread's truncate may run between `unlock2` and `wlock`. It also holds when the growth's ftruncate failed, because truncfail keeps the ftruncate error (`IWRC`).
- `ExFileRefines`: ExFile implements `ExFileAbstract`. In particular, no step changes the size or the windows while a thread holds a pointer, and acquire hands out only realised slots.
- `TypeOK`.

The lifecycle run has two threads, and files of 0 or 2 bytes on disk. One call may fail in a behaviour: `iwfs_exfile_init`, `_exfile_initlocks` or `iwfs_file_open` at an open, the Fibonacci policy's `calloc`, or one `munmap` (in a shrink, a `remove_mmap` or a close). It checks these properties:

- `OpenSizeConsistent`: an open instance's `fsize` is aligned, equal to the disk's, and within maxoff.
- `SlotListConsistent`, now with a middle slot that gets unlinked, and with removals whose `munmap` fails after the unlink.
- `CloseUnmapsSlots`: the close step unmaps the mapping of every slot except one whose `munmap` failed in that step, and nothing else. So close goes on after a failed removal.

Each property of a passing run has a mutant in `PROJECT.json`. A mutant replaces a definition with a plausible slip, and TLC then finds that property violated:

| Property | Slip |
|---|---|
| `TypeOK` | no saturation in add_mmap |
| `IOSafe` | the gap write does not advance `off` |
| `SlotsRealised` | `nlen <= len` instead of `==` |
| `SlotsDisjoint` | the insertion walk breaks before the overlap test |
| `SlotListConsistent` (safety) | append after the tail does not cut the tail's `next` |
| `SlotListConsistent` (lifecycle) | unlinking a middle slot does not fix the next slot's `prev` |
| `SizeConsistent` | truncfail does not restore `fsize` |
| `EnsuredSize` | truncfail assigns the rc of the remap (`rc = _exfile_initmmap_lw(f)`) instead of keeping the ftruncate error |
| `AcquiredStable` | remove_mmap takes the read lock; probe_mmap walks the list without the lock |
| `ExclusiveMutation` | copy tests `maxlen` instead of `len` |
| `ExFileRefines` | acquire hands out a slot with `len == 0` |
| `CallsReturn` | the upgrade keeps the read lock |
| `OpenSizeConsistent` | open grows to `initial_size` without page rounding |
| `CloseUnmapsSlots` | remove_mmap_wl frees the slot without munmap; close stops at the first failed removal |

## Bounds

The argument sets are small, but each exercises a branch:

- **Pages and offsets.** `PSIZE = 2` with offsets 0..5 gives aligned and unaligned offsets, a page boundary inside every request, and saturation at `OFF_T_MAX`: a slot at 2 with `maxlen` 4 is cut to 3 and rounded down to 2.
- **Writes.**
  - `[1, 2]` crosses a page and grows a 2-byte file.
  - `[2, 2]` starts on a slot boundary.
- **Truncates.**
  - Truncate 1 rounds to 2.
  - Truncate 4 grows.
  - After growth, truncate 1 shrinks.
  - Truncate -1 rounds to 0.
  - Truncate 5 rounds to 6, which wraps to -6. `OffT` wraps modulo `2 * (OFF_T_MAX + 1)`, as `off_t` does at `2^63 - 1`; `maxoff` does not stop it, because the wrapped size takes the shrink branch.
- **add_mmap.**
  - `[0, 1]` rounds up.
  - `[0, 3]` overlaps `[0, 1]`.
  - `[2, 4]` saturates.
  Together they give adjacent, overlapping and saturated slots.
- **Copies.**
  - `[2, 2 → 0]` has its source outside the mapping.
  - `[0, 2 → 2]` has its destination past `len` but within `maxlen`.
- **Faults and threads.** One injected fault is enough to reach every error label. Two threads are enough for every lock conflict: reader against writer, upgrader against upgrader, holder against remover, and closer against upgrader.
- **Lifecycle.** Files of 0 or 2 bytes on disk, with `initial_size` 0 or 3, give the no-op open, growth at open, reopen, and close with and without slots. A 3-byte file gives the unaligned case. With `OFF_T_MAX = 7` three slots fit, which the middle unlink needs. The pass run injects no ftruncate or mmap faults: a failed ftruncate at open is already the subject of open_failure's finding, and the `ftruncate`/`mmap` failures are checked in the safety and violation runs. The Fibonacci policy is there for its state: the lazy `calloc` that may fail, and the context that close frees with `req = -1`. No property is stated about its answers. Below the `OFF_T_MAX` clamp (lines 684-685) its answer is `RoundUp(max(csize + prev_sz, req))`, which is acceptable by construction. Write ends of 3 keep it below the clamp.

Run sizes:

- The safety run reaches about 438,000 distinct states in about 15 seconds, refinement included.
- The liveness run reaches 9,112 states in about 10 seconds. It has the safety run's writes and truncates, including -1 and the wrapping 5, but one slot request and one slot offset. With the safety run's slot sets, the fairness check does not finish in fifteen minutes.
- The lifecycle run reaches about 104,000 states in about 5 seconds.

## Fairness

`Spec` assumes the following fairness:

- **Weak fairness** for `Upgrade`, `Grow` and `Finish`. These are code a running thread executes without waiting.
- **Weak fairness for `Release`.** This is the documented contract of `acquire_mmap`: the caller must call `release_mmap`, even after `NOT_MMAPED`.
- **Strong fairness for `WLock`.** The write lock is free only intermittently.

A reader-preferring glibc rwlock does not guarantee the strong fairness on `WLock`. `CallsReturn` therefore shows that the lock protocol has no cycle; it does not show that a writer cannot starve. This is listed as a hazard.

`NestedSpec` adds strong fairness for `NestedWLock`. The nested write still never returns: its lock is never free.

`LifeSpec` has no fairness, since only safety is checked of it. A closed instance can always be opened again, so the lifecycle cfgs check deadlock. Only the nested_write cfg turns the check off, because its violation is a thread that waits forever.

## Not modelled (yet), and the plan

These parts are not modelled:

- `use_locks = false`. The lock wrappers then return 0 without locking (lines 67, 78, 89, 99). For the single thread the option is meant for, that runs the same steps as with locks. For several threads every call would race every other, which is outside the contract.
- A failing backend `close`. It changes only the code `_exfile_close` returns, because the kernel releases the descriptor either way, and no state depends on that code.
- Lock errors (`pthread_rwlock_*` failing with EAGAIN at the reader limit or EDEADLK), and failures of the backend's `sync` and of `msync`. These change only returned codes.
- A caller's use of a `probe_mmap` pointer after the call returns. Spec 4.9 leaves that to the caller's own synchronisation.
- Policies a caller supplies. Only the built-in ones are in the code.
- The error-code strings (`_exfile_ecodefn`), which are pure text.
- `iwkv.h` (declarations only) and the logger test.

Further work, most important first:

1. Return codes of `_exfile_close` and `_exfile_sync` with the first-error-wins accumulation of spec 7. `_exfile_sync` overwrites its `rc` on every failed `msync` (line 235).
2. Policy checks against reference definitions over bounded inputs, including Fibonacci growth over several steps (the spec's Fibonacci example).
3. A liveness property for the lifecycle: an open instance with a pending call reaches close.
