----------------------------- MODULE Placement ------------------------------
(***************************************************************************)
(* Where an installation puts its thunk and its trampoline: install and    *)
(* JmpChain::build of src/installer/arch/x86_64.rs over HookSite,          *)
(* os_alloc_near over the range allocator, and when that has nothing       *)
(* fitting, the search of os/memory.rs for a free region near the          *)
(* function, through the list that os/linux.rs reads from /proc/self/maps. *)
(* The installer holds the process lock, but other threads map and unmap   *)
(* memory at any time.                                                     *)
(***************************************************************************)
EXTENDS RangeAlloc, HookSite

CONSTANTS Codes,        \* the functions: the instructions they begin with
          Patches,      \* what another thread may write there meanwhile
          Maps,         \* the pages that may be mapped at first
          MIN_ADDRESS,  \* SysInfo.min_address
          MAX_ADDRESS,  \* SysInfo.max_address
          ThunkLayout,
          MaxChanges    \* bound: how often others map or unmap, or the system fails

ASSUME PlacementAssumption ==
  /\ {MIN_ADDRESS, MAX_ADDRESS} \subseteq Nat
  /\ MIN_ADDRESS % Granule = 0 /\ MAX_ADDRESS % Granule = 0
  /\ 0 < MIN_ADDRESS /\ MIN_ADDRESS < MAX_ADDRESS /\ MAX_ADDRESS <= Top
  /\ ThunkLayout \in Layout /\ MaxChanges \in Nat

(* The size of a type is a multiple of its alignment, pages are aligned    *)
(* for it, and a thunk or a buffer is smaller than a page.                 *)
ASSUME BlocksAssumption ==
  /\ ThunkLayout.size % ThunkLayout.align = 0 /\ Granule % ThunkLayout.align = 0
  /\ ThunkLayout.size < Granule /\ RelocBufLen < Granule

VARIABLES
  code,     \* the instructions of the function, until they are analysed
  site,     \* the HookSite, with the bytes behind the first instruction;
            \* and as history, whether a full jump lies on foreign code
  mapped,   \* the pages in use, by address
  stage,    \* what the installer does next
  jump,     \* short: install_fast; long: install_slow
  wanted,   \* what is allocated next
  cur,      \* cur_alloc_addr
  place,    \* the place that the search has chosen
  thunk, trampoline,
  changes,
  quiet     \* history: nothing changed or failed since the search began

blocks    == <<alloc, held, owned>>
installer == <<code, site, stage, jump, wanted, cur, place, thunk, trampoline>>
all       == <<blocks, installer, mapped, changes, quiet>>

Nowhere == [start |-> 0, end |-> 0]
NoSite  == [first |-> 0, reach |-> {}, bytes |-> 0, foreign |-> FALSE]
Page    == {a \in MIN_ADDRESS..(MAX_ADDRESS - 1) : a % Granule = 0}

ASSUME CodesAssumption == Codes \cup Patches \subseteq Seq(Instruction)

ASSUME MapsAssumption == Maps \subseteq SUBSET Page

PlacementInit ==
  /\ code \in Codes /\ site = NoSite
  /\ mapped \in Maps
  /\ stage = "analyze" /\ jump = "short" /\ wanted = "thunk"
  /\ cur = 0 /\ place = Nowhere /\ thunk = 0 /\ trampoline = 0
  /\ changes = 0 /\ quiet = TRUE
  /\ Init

-----------------------------------------------------------------------------
(* HookSite::analyze; a function that is too short cannot be hooked.  Any  *)
(* bytes may follow the first instruction.                                 *)
AnalyzeSite ==
  /\ stage = "analyze"
  /\ LET insns == Decode(code)
     IN IF TooShort(insns)
        THEN stage' = "failed" /\ UNCHANGED site
        ELSE /\ stage' = "ask"
             /\ \E bytes \in Behind(insns[1].len) :
                  site' = [first |-> insns[1].len, reach |-> Reach(insns), bytes |-> bytes,
                           foreign |-> Foreign(code) # {}]
  /\ code' = <<>> /\ jump' = "short" /\ wanted' = "thunk"
  /\ UNCHANGED <<blocks, mapped, cur, place, thunk, trampoline, changes, quiet>>

(* What os_alloc_near is asked for. *)
Request ==
  LET bounds == IF wanted = "buffer" THEN BufferBounds(site.reach)
                ELSE IF jump = "short" THEN ShortBounds(site.bytes, site.first)
                ELSE FullBounds
  IN [layout |-> IF wanted = "buffer" THEN [size |-> RelocBufLen, align |-> 1] ELSE ThunkLayout,
      addr |-> bounds.addr, start |-> bounds.start, end |-> bounds.end]

(* build goes on with the block that has been asked for. *)
Receive(served) ==
  \E block \in served :
    IF wanted = "buffer"
    THEN trampoline' = block.start /\ stage' = "encode" /\ UNCHANGED <<wanted, thunk>>
    ELSE thunk' = block.start /\ stage' = "ask" /\ wanted' = "buffer" /\ UNCHANGED trampoline

(* os_alloc_near, from the table. *)
FromTable ==
  /\ stage = "ask"
  /\ Alloc(Request)
  /\ Receive(AllocNear(alloc, Request).served)
  /\ UNCHANGED <<code, site, mapped, jump, cur, place, changes, quiet>>

-----------------------------------------------------------------------------
(* alloc_inside_bounds: the addresses at which the block may begin. *)
LowestAddr(q)  == Larger(LowAddr(q), MIN_ADDRESS)
HighestAddr(q) == Smaller(HighAddr(q), Saturating(MAX_ADDRESS - q.layout.size))

(* Bounds that are no bounds are an error, and no address within them is   *)
(* no memory.                                                              *)
BeginSearch ==
  /\ stage = "ask"
  /\ AllocNear(alloc, Request).served = {}
  /\ LET q == Request
     IN /\ stage' = IF ~Expressible(q) \/ LowDist(q.start) > HighDist(q.end) THEN "error"
                    ELSE IF LowestAddr(q) > HighestAddr(q) THEN "none" ELSE "maps"
        /\ cur' = RoundDown(LowestAddr(q), Granule)
  /\ quiet' = TRUE
  /\ UNCHANGED <<blocks, code, site, mapped, jump, wanted, place, thunk, trampoline, changes>>

Ends(pages) == {p + Granule : p \in pages}

(* Region::iter leaves out what is mapped and ends before `start`; the     *)
(* free regions lie between what is left.                                  *)
PrevEnd(start) == Max({MIN_ADDRESS} \cup {e \in Ends(mapped) : e <= start})

FreeRegions(start) ==
  {r \in [start : Ends(mapped) \cup {MIN_ADDRESS}, end : mapped \cup {MAX_ADDRESS}] :
     /\ PrevEnd(start) <= r.start /\ r.start < r.end
     /\ \A p \in mapped : p < r.start \/ r.end <= p}

(* Mutant of PlaceIn: a place that begins below the bounds is too short.   *)
PlaceIn_Short(r, q) ==
  LET min == Larger(RoundUp(r.start, Granule), RoundDown(LowestAddr(q), Granule))
  IN [start |-> min, end |-> RoundUp(min + q.layout.size, Granule)]

(* The place in a free region: from its lowest granule as far as a block   *)
(* needs that begins within the bounds.                                    *)
PlaceIn(r, q) ==
  LET min == Larger(RoundUp(r.start, Granule), RoundDown(LowestAddr(q), Granule))
  IN [start |-> min, end |-> RoundUp(Larger(min, LowestAddr(q)) + q.layout.size, Granule)]

(* Mutant of FittingRegions: a place that begins below the bounds is not   *)
(* considered.                                                             *)
FittingRegions_NoSpill(start, q) ==
  {r \in FreeRegions(start) :
     /\ LowestAddr(q) <= PlaceIn(r, q).start /\ PlaceIn(r, q).start <= HighestAddr(q)
     /\ PlaceIn(r, q).end <= r.end}

FittingRegions(start, q) ==
  {r \in FreeRegions(start) :
     PlaceIn(r, q).start <= HighestAddr(q) /\ PlaceIn(r, q).end <= r.end}

(* The list is read, and gone through as far as the first region that      *)
(* fits; what lies before it is remembered as unavailable.                 *)
ReadMaps ==
  /\ stage = "maps"
  /\ LET q == Request
         fits == FittingRegions(cur, q)
     IN IF fits = {}
        THEN stage' = "none" /\ UNCHANGED <<cur, place>>
        ELSE \E r \in fits :
               /\ \A s \in fits : r.start <= s.start
               /\ place' = PlaceIn(r, q)
               /\ cur' = IF r.start = PrevEnd(cur) THEN cur ELSE r.start
               /\ stage' = "map"
  /\ UNCHANGED <<blocks, code, site, mapped, jump, wanted, thunk, trampoline, changes, quiet>>

PagesOf(r) == {p \in Page : r.start <= p /\ p < r.end}

(* mmap with MAP_FIXED_NOREPLACE: the region is adopted, and the table     *)
(* asked again.                                                            *)
MapPlace ==
  /\ stage = "map" /\ PagesOf(place) \cap mapped = {}
  /\ mapped' = mapped \cup PagesOf(place)
  /\ LET again == AllocNear(AdoptRange(alloc, place), Request)
     IN /\ alloc' = again.alloc
        /\ held' = held \cup again.served
        /\ IF again.served = {}
           THEN stage' = "none" /\ UNCHANGED <<wanted, thunk, trampoline>>
           ELSE Receive(again.served)
  /\ owned' = owned \cup Bytes(place)
  /\ place' = Nowhere /\ cur' = 0
  /\ UNCHANGED <<code, site, jump, changes, quiet>>

(* EEXIST, or ENOMEM: the list is read again, from the next granule on.    *)
TryNext ==
  /\ stage = "map"
  /\ \/ PagesOf(place) \cap mapped # {} /\ UNCHANGED <<changes, quiet>>
     \/ changes < MaxChanges /\ changes' = changes + 1 /\ quiet' = FALSE
  /\ cur' = cur + Granule
  /\ place' = Nowhere /\ stage' = "maps"
  /\ UNCHANGED <<blocks, code, site, mapped, jump, wanted, thunk, trampoline>>

(* Any other error of mmap, or one of reading the list, is returned. *)
SearchFails ==
  /\ stage \in {"maps", "map"}
  /\ changes < MaxChanges /\ changes' = changes + 1
  /\ stage' = "error"
  /\ UNCHANGED <<blocks, code, site, mapped, jump, wanted, cur, place, thunk, trampoline, quiet>>

-----------------------------------------------------------------------------
(* The block at an address is given back, if there is one. *)
GiveBack(addr) ==
  LET given == {b \in held : b.start = addr}
  IN IF given = {} THEN UNCHANGED blocks ELSE \E b \in given : Reclaim(b)

(* Mutant of Refused: the thunk is not given back. *)
Refused_KeepsThunk ==
  /\ stage \in {"none", "error"}
  /\ IF stage = "none" /\ wanted = "thunk" /\ jump = "short" /\ site.first < JmpLen
     THEN jump' = "long" /\ stage' = "ask"
     ELSE jump' = jump /\ stage' = "failed"
  /\ UNCHANGED <<blocks, code, site, mapped, wanted, cur, place, thunk, trampoline, changes, quiet>>

(* There is no block.  Only for want of a thunk, where the first           *)
(* instruction is too short for any jump, is the long one tried; without a *)
(* trampoline, the thunk is given back.                                    *)
Refused ==
  /\ stage \in {"none", "error"}
  /\ IF stage = "none" /\ wanted = "thunk" /\ jump = "short" /\ site.first < JmpLen
     THEN jump' = "long" /\ stage' = "ask" /\ UNCHANGED blocks
     ELSE jump' = jump /\ stage' = "failed" /\ GiveBack(thunk)
  /\ UNCHANGED <<code, site, mapped, wanted, cur, place, thunk, trampoline, changes, quiet>>

(* encode_at needs `len` bytes of the buffer.                              *)
Encode ==
  /\ stage = "encode"
  /\ \E len \in UsedLens : \E b \in {c \in held : c.start = trampoline} :
       IF len < RelocBufLen THEN ReclaimRest(b, len) ELSE UNCHANGED blocks
  /\ stage' = "detour"
  /\ UNCHANGED <<code, site, mapped, jump, wanted, cur, place, thunk, trampoline, changes, quiet>>

(* There is no encoding, or it is too long. *)
EncodeFails ==
  /\ stage = "encode"
  /\ changes < MaxChanges /\ changes' = changes + 1
  /\ GiveBack(trampoline)
  /\ stage' = "error"
  /\ UNCHANGED <<code, site, mapped, jump, wanted, cur, place, thunk, trampoline, quiet>>

(* The jump is written. *)
Detour ==
  /\ stage = "detour"
  /\ stage' = "done"
  /\ UNCHANGED <<blocks, code, site, mapped, jump, wanted, cur, place, thunk, trampoline, changes, quiet>>

(* The function has changed since it was analysed: trampoline and thunk    *)
(* are given back, and it is analysed again.                               *)
DetourFails ==
  /\ stage = "detour"
  /\ changes < MaxChanges /\ changes' = changes + 1
  /\ GiveBack(trampoline)
  /\ stage' = "again"
  /\ UNCHANGED <<code, site, mapped, jump, wanted, cur, place, thunk, trampoline, quiet>>

TryAgain ==
  /\ stage = "again"
  /\ GiveBack(thunk)
  /\ thunk' = 0 /\ trampoline' = 0 /\ site' = NoSite
  /\ code' \in Patches /\ stage' = "analyze"
  /\ UNCHANGED <<mapped, jump, wanted, cur, place, changes, quiet>>

(* Another thread maps or unmaps a page of its own, but not of the code.   *)
Others ==
  /\ stage \in {"maps", "map"}
  /\ changes < MaxChanges /\ changes' = changes + 1 /\ quiet' = FALSE
  /\ \E p \in Page :
       /\ p \notin owned /\ ~(Target < p + Granule /\ p < Target + DisasmLen)
       /\ mapped' = IF p \in mapped THEN mapped \ {p} ELSE mapped \cup {p}
  /\ UNCHANGED <<blocks, installer>>

PlacementNext ==
  \/ AnalyzeSite \/ FromTable \/ BeginSearch \/ ReadMaps \/ MapPlace \/ TryNext
  \/ SearchFails \/ Refused \/ Encode \/ EncodeFails \/ Detour \/ DetourFails \/ TryAgain
  \/ Others

PlacementSpec == PlacementInit /\ [][PlacementNext]_all

-----------------------------------------------------------------------------
(* The instructions that are decoded from the first bytes of a function    *)
(* tell as much as all of its code would: no instruction that analyze      *)
(* needs is cut off by DISASM_LEN (x86_64.rs:34-36).                       *)
BytesSuffice ==
  stage = "analyze" =>
    /\ TooShort(Decode(code)) <=> TooShort(code)
    /\ ~TooShort(code) => Reach(Decode(code)) = Reach(code)

(* A jump of full length that was written lies on instructions that the    *)
(* trampoline has, and on padding after the end of the function: "Break if *)
(* there is a non-padding byte after an assumed end of a function"         *)
(* (hook_site.rs:73).  Of a short jump JumpFits says that it keeps what is *)
(* behind the first instruction.                                           *)
OverwritesOwnCode == stage = "done" /\ jump = "long" => ~site.foreign

(* What the search over /proc/self/maps adopts and serves, others mapping  *)
(* and unmapping pages meanwhile, is what the allocator was promised: each *)
(* step is one of RangeAlloc for the request that was made, so that what   *)
(* it guarantees of the table and of the blocks holds here as well.        *)
ImplementsAllocator ==
  [][\/ stage \in {"ask", "map"} /\ (Alloc(Request) \/ AdoptAndAlloc(Request))
     \/ \E b \in held : Reclaim(b) \/ \E len \in UsedLens : ReclaimRest(b, len)]_blocks

(* The pages that a block at addr lies on. *)
PagesAt(addr, size) == {RoundDown(a, Granule) : a \in addr..(addr + size - 1)}

(* If nothing changed or failed meanwhile and no block was found, there is *)
(* no address for it within the bounds, in free memory or in the table,    *)
(* but for the highest one that is allowed.                                *)
RefusesOnlyIfFull ==
  stage = "none" /\ quiet =>
    LET q == Request
    IN \A addr \in LowestAddr(q)..HighestAddr(q) :
         /\ addr % q.layout.align = 0
         /\ addr \in Places(q) \/ PagesAt(addr, q.layout.size) \subseteq Page \ mapped
         => addr = MaxAddr(alloc, q)

(* An installation that fails, at whichever point, keeps no memory of the  *)
(* process-wide table to itself.                                           *)
FailureGivesBack == stage = "failed" => held = {}

(* The jump that is to be written leads to the thunk; and the short jump,  *)
(* written while other threads run, leaves the bytes of the instructions   *)
(* after the first as they are.                                            *)
JumpFits ==
  stage = "detour" =>
    LET disp == Displacement(thunk)
    IN /\ disp \in Int32Min..Int32Max
       /\ jump = "short" => BytesFrom(disp, site.first) = site.bytes

(* Wherever in its buffer an instruction of the trampoline ends up, it     *)
(* reaches every address that the instructions refer to.                   *)
TrampolineReaches ==
  stage = "encode" =>
    \A ref \in site.reach : \A next \in trampoline..(trampoline + RelocBufLen) :
      ref - next \in Int32Min..Int32Max
=============================================================================
