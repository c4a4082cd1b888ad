------------------------------- MODULE Inventory -------------------------------
(***************************************************************************)
(* SpecCompatibleRmsApiClient.async_list_devices (api_devices.py) and the  *)
(* InventoryCoordinator that publishes its result (coordinator.py).  The   *)
(* listing is read page by page with limit and offset while devices join   *)
(* and leave it.                                                           *)
(***************************************************************************)
EXTENDS Integers, SequencesExt

CONSTANTS
  Devices,      \* devices that may be registered in RMS
  Keyless,      \* those without an id normalize_device knows (a mac only)
  PageSize,     \* the limit sent with each request
  ShortPage,    \* the page length of a server that caps the limit
  MaxChanges,   \* bound: joins and leaves during one listing
  MaxOffset     \* bound: where a listing that does not end is cut off

ASSUME InventoryAssumption ==
  /\ Keyless \subseteq Devices
  /\ PageSize \in Nat \ {0}
  /\ ShortPage \in 1..PageSize
  /\ MaxChanges \in Nat
  /\ MaxOffset \in Nat

VARIABLES
  server,    \* what RMS makes of limit and offset, and whether it sends meta.total
  registry,  \* the listing at RMS, in its order
  listing,   \* a listing is under way
  offset,    \* the offset of the page asked for
  previous,  \* previous_page_signature
  devices,   \* what the pages have brought; dropping repetitions makes it a set
  data,      \* inventory.data
  present,   \* history: devices registered all through the listing
  seen,      \* history: devices registered at some time during it
  shrunk,    \* history: a device left during it
  changes    \* joins and leaves during it

local == <<listing, offset, previous, devices>>
hist == <<present, seen, shrunk, changes>>
vars == <<server, registry, listing, offset, previous, devices, data,
          present, seen, shrunk, changes>>

Registered == ToSet(registry)

TypeOK ==
  /\ server \in [total : BOOLEAN, paged : BOOLEAN, limit : {ShortPage, PageSize}]
  /\ registry \in Seq(Devices) /\ IsInjective(registry)
  /\ listing \in BOOLEAN
  /\ offset \in Nat
  /\ previous \in Seq(Devices)
  /\ devices \subseteq Devices
  /\ data \subseteq Devices \ Keyless
  /\ present \subseteq seen /\ seen \subseteq Devices
  /\ shrunk \in BOOLEAN
  /\ changes \in 0..MaxChanges

\* Any server: it may cap the limit, ignore the offset, and send no total
Init ==
  /\ server \in [total : BOOLEAN, paged : BOOLEAN, limit : {ShortPage, PageSize}]
  /\ registry = <<>>
  /\ listing = FALSE
  /\ offset = 0
  /\ previous = <<>>
  /\ devices = {}
  /\ data = {}
  /\ present = {}
  /\ seen = {}
  /\ shrunk = FALSE
  /\ changes = 0

-------------------------------------------------------------------------------
(* The listing *)

\* The page RMS answers the request in flight with
Page ==
  LET first == IF server.paged THEN offset + 1 ELSE 1
      last  == first + server.limit - 1
  IN  SubSeq(registry, first, IF last < Len(registry) THEN last ELSE Len(registry))

\* Mutant: no detection of a server that ignores the offset
Repeated_never(page) == FALSE

\* page_signature and page_signature == previous_page_signature
Repeated(page) == page # <<>> /\ page = previous

\* _has_next_offset_page: without meta.total a short page is taken for the last
HasNext(page) ==
  /\ page # <<>>
  /\ IF server.total THEN offset + Len(page) < Len(registry) ELSE Len(page) >= PageSize

\* _append_unseen_devices
AppendUnseen(page) == devices \cup ToSet(page)

\* Mutant: the records of earlier listings are kept
Publish_merged(records) == data' = data \cup (records \ Keyless)

\* _async_update_data: a record without an identifier is dropped
Publish(records) == data' = records \ Keyless

Begin ==
  /\ ~listing
  /\ listing' = TRUE
  /\ offset' = 0
  /\ previous' = <<>>
  /\ devices' = {}
  /\ present' = Registered
  /\ seen' = Registered
  /\ shrunk' = FALSE
  /\ changes' = 0
  /\ UNCHANGED <<server, registry, data>>

\* The local variables and the history of a listing end with it
End ==
  /\ listing' = FALSE
  /\ offset' = 0
  /\ previous' = <<>>
  /\ devices' = {}
  /\ present' = {} /\ seen' = {} /\ shrunk' = FALSE /\ changes' = 0

\* Mutant: the offset advances by the limit
NextPage_stride ==
  /\ listing /\ offset < MaxOffset
  /\ ~Repeated(Page) /\ HasNext(Page)
  /\ previous' = Page
  /\ devices' = AppendUnseen(Page)
  /\ offset' = offset + PageSize
  /\ UNCHANGED <<server, registry, listing, data, hist>>

\* Another page is asked for, behind the records received
NextPage ==
  /\ listing /\ offset < MaxOffset
  /\ ~Repeated(Page) /\ HasNext(Page)
  /\ previous' = Page
  /\ devices' = AppendUnseen(Page)
  /\ offset' = offset + Len(Page)
  /\ UNCHANGED <<server, registry, listing, data, hist>>

\* The last page, or one past the end
LastPage ==
  /\ listing
  /\ ~Repeated(Page) /\ ~HasNext(Page)
  /\ Publish(AppendUnseen(Page))
  /\ End
  /\ UNCHANGED <<server, registry>>

\* The page before comes again: it is not appended
RepeatedPage ==
  /\ listing
  /\ Repeated(Page)
  /\ Publish(devices)
  /\ End
  /\ UNCHANGED <<server, registry>>

\* RmsApiError becomes UpdateFailed; nothing of a failed listing is published
Fail ==
  /\ listing
  /\ End
  /\ UNCHANGED <<server, registry, data>>

-------------------------------------------------------------------------------
(* RMS *)

Change == IF listing THEN changes < MaxChanges /\ changes' = changes + 1
                     ELSE UNCHANGED changes

\* A device is registered; its place in the listing depends on the order
Join ==
  \E d \in Devices \ Registered, i \in 1..Len(registry) + 1 :
    /\ Change
    /\ registry' = InsertAt(registry, i, d)
    /\ seen' = IF listing THEN seen \cup {d} ELSE {}
    /\ UNCHANGED <<server, local, data, present, shrunk>>

Leave ==
  \E i \in 1..Len(registry) :
    /\ Change
    /\ registry' = RemoveAt(registry, i)
    /\ present' = present \ {registry[i]}
    /\ shrunk' = listing
    /\ UNCHANGED <<server, local, data, seen>>

-------------------------------------------------------------------------------
Answer == NextPage \/ LastPage \/ RepeatedPage

Next == Begin \/ Answer \/ Fail \/ Join \/ Leave

Spec == Init /\ [][Next]_vars

\* Every request returns or raises (RmsRequest), so a listing does not stay at a
\* page; that an error would end it is not relied upon.
FairSpec == Spec /\ WF_vars(Answer)

-------------------------------------------------------------------------------
(* Properties *)

\* A short page tells nothing: there is a total, or the server caps no limit
Countable == server.total \/ server.limit = PageSize

\* While nothing leaves RMS and fewer devices join than a page holds, a listing
\* that succeeds brings every device that is registered all through it: joins
\* shift devices to later pages, never past the cursor, and a server that sends
\* meta.total may send shorter pages than it was asked for.  One that caps the
\* limit and sends no total loses what is behind its first page.  As many joins
\* as a page holds can make the page before come again, which ends the listing.
CompleteUnlessShrunk ==
  [][data' # data /\ server.paged /\ Countable /\ ~shrunk /\ changes < server.limit
       => present \ Keyless \subseteq data']_vars

\* A device is published only if it was registered during the listing: one
\* that has left RMS leaves Home Assistant with the next listing.
OnlyRegistered == [][data' # data => data' \subseteq seen]_vars

\* "A server ignoring offset cannot cause duplicate pages or an endless loop"
\* (tests/unit/test_api_devices.py:79): the offset, and with it the number of
\* pages, is bounded, by the registry when the server goes by the offset and
\* else by how often the registry changes: only then is a page not a repetition.
OffsetBound ==
  offset <= IF server.paged THEN Len(registry) + changes
                            ELSE server.limit * (changes + 1)

\* Every listing ends, given that RMS does not change forever while it runs.
ListingEnds == listing ~> ~listing

-------------------------------------------------------------------------------
(* What makes them inductive *)

\* The cursor has passed no device but those received
CoveredInv ==
  server.paged /\ ~shrunk =>
    \A i \in 1..Len(registry) :
      i <= offset /\ registry[i] \in present => registry[i] \in devices

\* Only joins have moved the first device of the page before, which was full
PreviousInv ==
  server.paged /\ ~shrunk /\ previous # <<>> =>
    \E i \in 1..Len(registry) :
      registry[i] = previous[1] /\ i + server.limit <= offset + 1 + changes

\* A page that came since the last change of the registry comes again
RepeatInv == ~server.paged /\ previous # Page => offset <= server.limit * changes

HistoryInv ==
  /\ devices \subseteq seen
  /\ IF listing THEN Registered \subseteq seen /\ (~shrunk => present \subseteq Registered)
     ELSE seen = {} /\ ~shrunk /\ changes = 0 /\ offset = 0 /\ previous = <<>>

IInv ==
  /\ TypeOK
  /\ HistoryInv
  /\ CoveredInv
  /\ PreviousInv
  /\ RepeatInv
  /\ OffsetBound
===============================================================================
