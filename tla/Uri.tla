-------------------------------- MODULE Uri ---------------------------------
(***************************************************************************)
(* Resources named by URIs (common/lib/uri.c): how one is parsed, which    *)
(* volume or TFTP server it names (with common/fs/file.s2.c and            *)
(* common/pxe/tftp.s2.c), how its hash is checked (common/crypt), and how  *)
(* its bytes, unpacked by common/compress/gzip.c, reach memory.            *)
(*                                                                         *)
(* A URI, and each of its parts, is a sequence of symbols.  A digest is    *)
(* the data it was taken of.  Memory is pages of Page bytes, of which      *)
(* those from HighLine on are above 4 GiB.                                 *)
(***************************************************************************)
EXTENDS Integers, SequencesExt, FiniteSetsExt

CONSTANTS
  Worlds,          \* machines: see MCUri
  Requests,        \* records of a URI and the parameters of uri_open()
  MaxRequests,
  NumberOf,        \* what strtoui() makes of a symbol
  Addresses,       \* symbols inet_pton() can read
  DigestOf,        \* the data a hash that is written well stands for
  MixedGuid, BeGuid, \* the GUIDs a symbol stands for
  LongUri,         \* a symbol longer than URI_BUF_SIZE
  LongName,        \* a symbol longer than the PXE API takes
  MaxPartition,
  Pages, HighLine, \* how many pages there are, and the first above 4 GiB
  FirstCap, DoubleUpTo, Stride, \* 1 MiB, 64 MiB and 64 KiB of the drain
  MaxPacket

VARIABLES
  world, connected, ack,
  request, pc,
  parsed,          \* resource, gz_compressed, root, path and hash
  raw,             \* the file behind the URI
  used,            \* the type of a page
  mem,             \* the bytes in memory
  comp, buf,       \* the compressed copy and the buffer that is filled
  pos,             \* how much of the stream, or of a transfer, has been read
  vouched,         \* the hash matched, or the user went on without
  owned,           \* handles, path copies and pools not freed
  results

vars == <<world, connected, ack, request, pc, parsed, raw, used, mem, comp, buf, pos, vouched, owned, results>>

Page == 2
None == << >>
Symbols == 1 .. 16

PagesFor(n) == Max({1, (n + Page - 1) \div Page})

Init ==
  /\ world \in Worlds /\ connected = FALSE /\ ack = FALSE
  /\ request = None /\ pc = "idle" /\ parsed = None /\ raw = None
  /\ used = [p \in 0 .. Pages - 1 |-> IF p \in world.free THEN "usable" ELSE "taken"]
  /\ mem = [a \in 0 .. Pages * Page - 1 |-> 0]
  /\ comp = None /\ buf = None /\ pos = 0 /\ vouched = FALSE /\ owned = {} /\ results = << >>
-----------------------------------------------------------------------------
(* Memory, as common/mm/pmm.s2.c gives and takes it                        *)
Runs(n, limit) == {p \in 0 .. limit - n : \A q \in p .. p + n - 1 : used[q] = "usable"}

HighOk == request.high /\ (world.ia32 => request.copies)

(* The highest run below 4 GiB, or then above; -1 is a panic               *)
Allocate(n) ==
  IF Runs(n, HighLine) # {} THEN Max(Runs(n, HighLine))
  ELSE IF HighOk /\ Runs(n, Pages) # {} THEN Max(Runs(n, Pages))
  ELSE -1

IsHigh(page) == world.ia32 /\ page >= HighLine

Marked(types, page, n, type) == [p \in 0 .. Pages - 1 |-> IF p \in page .. page + n - 1 THEN type ELSE types[p]]

uri_release_range(types, page, count) ==
  Marked(types, page, (count + Page - 1) \div Page, "usable")

Stored(at, bytes) ==
  [a \in DOMAIN mem |-> IF a - at + 1 \in DOMAIN bytes THEN bytes[a - at + 1] ELSE mem[a]]

BytesAt(at, n) == [i \in 1 .. n |-> mem[at + i - 1]]
-----------------------------------------------------------------------------
(* The parts of a URI: resource(root):/path#hash                           *)
FirstOf(s, symbol) == Min({i \in DOMAIN s : s[i] = symbol} \cup {Len(s) + 1})
LastOf(s, symbol) == Max({i \in DOMAIN s : s[i] = symbol} \cup {0})
After(s, i) == SubSeq(s, i + 1, Len(s))
Before(s, i) == SubSeq(s, 1, i - 1)

uri_resolve(uri) ==
  LET open == FirstOf(uri, "(")
      rest == After(uri, open)
      close == FirstOf(rest, "):/")
      tail == After(rest, close)
      mark == LastOf(tail, "#")
      gz == open > 1 /\ uri[1] = "$"
  IN  [ok |-> open <= Len(uri) /\ close <= Len(rest) /\ tail # << >>,
       error |-> LongUri \in Range(uri) \/ (mark > 0 /\ (mark + 1 # Len(tail) \/ tail[Len(tail)] \notin DOMAIN DigestOf)),
       gz |-> gz,
       resource |-> IF gz THEN SubSeq(uri, 2, open - 1) ELSE Before(uri, open),
       root |-> Before(rest, close),
       path |-> IF mark > 0 THEN Before(tail, mark) ELSE tail,
       hashed |-> mark > 0,
       hash |-> IF mark > 0 THEN tail[Len(tail)] ELSE ""]

(* URI_ERROR: an optional resource is backed out of                        *)
Failure == IF request.optional THEN "null" ELSE "panic"

Start ==
  /\ pc = "idle" /\ Len(results) < MaxRequests
  /\ request' \in Requests
  /\ \E u \in {uri_resolve(request'.uri)} :
       /\ pc' = IF LongUri \in Range(request'.uri) THEN IF request'.optional THEN "null" ELSE "panic"
                ELSE IF ~u.ok THEN "null"
                ELSE IF u.error THEN IF request'.optional THEN "null" ELSE "panic"
                ELSE "dispatch"
       /\ parsed' = IF pc' = "dispatch" THEN u ELSE None
  /\ UNCHANGED <<world, connected, ack, raw, used, mem, comp, buf, pos, vouched, owned, results>>
-----------------------------------------------------------------------------
(* Volumes                                                                 *)
strtoui(s) == IF s # << >> /\ s[1] \in DOMAIN NumberOf THEN NumberOf[s[1]] ELSE 0

Colon == FirstOf(parsed.root, ":")
Drive == strtoui(Before(parsed.root, Colon))
Partition == strtoui(After(parsed.root, Colon))

parse_bios_partition ==
  IF Colon > Len(parsed.root) THEN "null"
  ELSE IF Colon = 1 \/ Drive \notin 1 .. MaxPartition \/ Partition > MaxPartition THEN "error"
  ELSE "ok"

Symbol == IF Len(parsed.root) = 1 THEN parsed.root[1] ELSE ""

volume_by_guid_str(vols) ==
  LET Has(v, g) == g \in v.guids
      mixed == SelectSeq(vols, LAMBDA v : Has(v, MixedGuid[Symbol]))
      be == SelectSeq(vols, LAMBDA v : Has(v, BeGuid[Symbol]))
  IN  IF Symbol \notin DOMAIN MixedGuid THEN << >> ELSE mixed \o be

volume_get_by_coord(vols, optical, drive, partition) ==
  SelectSeq(vols, LAMBDA v : v.optical = optical /\ v.index = drive /\ v.partition = partition)

volume_get_by_fslabel(vols) == SelectSeq(vols, LAMBDA v : v.label # "" /\ v.label = Symbol)

Named(vols) ==
  CASE parsed.resource = <<"hdd">> -> volume_get_by_coord(vols, FALSE, Drive, Partition)
    [] parsed.resource = <<"odd">> -> volume_get_by_coord(vols, TRUE, Drive, Partition)
    [] parsed.resource \in {<<"guid">>, <<"uuid">>} -> volume_by_guid_str(vols)
    [] OTHER -> volume_get_by_fslabel(vols)

Visible(all) == SelectSeq(world.volumes, LAMBDA v : all \/ ~v.late)

(* The volume is looked for again once all disks are connected             *)
connect_all == Named(Visible(connected)) = << >> /\ world.uefi /\ ~connected

(* iso9660_open() before fat32_open()                                      *)
fopen(v, path) ==
  IF path \in DOMAIN v.iso THEN v.iso[path] ELSE IF path \in DOMAIN v.fat THEN v.fat[path] ELSE None

Open(f) ==
  IF f = None THEN pc' = "null" /\ UNCHANGED <<raw, owned>>
  ELSE pc' = "opened" /\ raw' = f /\ owned' = {"raw"}

IsVolume == parsed.resource \in {<<"hdd">>, <<"odd">>, <<"guid">>, <<"uuid">>, <<"fslabel">>}
HasCoord == parsed.resource \in {<<"hdd">>, <<"odd">>}

(* A bug: what is found only once all disks are connected is given up      *)
BugNoSecondLook ==
  /\ pc = "dispatch" /\ IsVolume /\ (HasCoord => parse_bios_partition = "ok")
  /\ connected' = (connected \/ connect_all)
  /\ LET found == Named(Visible(connected))
     IN  Open(IF found = << >> THEN None ELSE fopen(found[1], parsed.path))
  /\ UNCHANGED <<world, ack, request, parsed, used, mem, comp, buf, pos, vouched, results>>

VolumeDispatch ==
  /\ pc = "dispatch" /\ IsVolume /\ (HasCoord => parse_bios_partition = "ok")
  /\ connected' = (connected \/ connect_all)
  /\ LET found == Named(Visible(connected'))
     IN  Open(IF found = << >> THEN None ELSE fopen(found[1], parsed.path))
  /\ UNCHANGED <<world, ack, request, parsed, used, mem, comp, buf, pos, vouched, results>>

uri_boot_dispatch ==
  /\ pc = "dispatch" /\ parsed.resource = <<"boot">> /\ ~world.boot.pxe
  /\ strtoui(parsed.root) <= MaxPartition
  /\ LET part == IF parsed.root = << >> THEN world.boot.partition ELSE strtoui(parsed.root)
         found == volume_get_by_coord(Visible(connected), world.boot.optical, world.boot.index, part)
     IN  Open(IF found = << >> THEN None ELSE fopen(found[1], parsed.path))
  /\ UNCHANGED <<world, connected, ack, request, parsed, used, mem, comp, buf, pos, vouched, results>>

IsTftp == parsed.resource = <<"tftp">> \/ (parsed.resource = <<"boot">> /\ world.boot.pxe)

(* What is not a resource, a drive, a partition or an address              *)
BadRoot ==
  /\ pc = "dispatch"
  /\ pc' = CASE HasCoord -> IF parse_bios_partition = "null" THEN "null" ELSE Failure
             [] OTHER -> Failure
  /\ \/ ~IsVolume /\ ~IsTftp /\ parsed.resource # <<"boot">>
     \/ HasCoord /\ parse_bios_partition # "ok"
     \/ IsTftp /\ parsed.root # << >> /\ Symbol \notin Addresses
     \/ ~IsTftp /\ parsed.resource = <<"boot">> /\ strtoui(parsed.root) > MaxPartition
  /\ UNCHANGED <<world, connected, ack, request, parsed, raw, used, mem, comp, buf, pos, vouched, owned, results>>
-----------------------------------------------------------------------------
(* TFTP                                                                    *)
parse_ip_addr == IF parsed.root = << >> THEN world.reply ELSE Symbol

Served == IF parse_ip_addr \in DOMAIN world.servers /\ parsed.path \in DOMAIN world.servers[parse_ip_addr]
          THEN world.servers[parse_ip_addr][parsed.path] ELSE None

(* The size is asked for, then the file is opened                          *)
tftp_open ==
  /\ pc = "dispatch" /\ IsTftp /\ (parsed.root # << >> => Symbol \in Addresses)
  /\ ack' = (ack \/ (world.boot.pxe /\ parsed.root = << >> /\ world.acked))
  /\ \/ /\ ~world.boot.pxe \/ (~world.uefi /\ LongName \in Range(parsed.path)) \/ Served = None
        /\ pc' = IF world.boot.pxe /\ ~world.uefi /\ parse_ip_addr = "" THEN "panic" ELSE "null"
        /\ UNCHANGED <<raw, owned>>
     \/ /\ world.boot.pxe /\ (~world.uefi => LongName \notin Range(parsed.path)) /\ Served # None
        /\ \/ pc' = "null" /\ UNCHANGED <<raw, owned>>   \* the server refuses
           \/ pc' = "transfer" /\ raw' = Served /\ owned' = {"raw"}
  /\ UNCHANGED <<world, connected, request, parsed, used, mem, comp, buf, pos, vouched, results>>

(* BIOS: packets until the file is complete                                *)
TftpRead ==
  /\ pc = "transfer" /\ ~world.uefi /\ pos < Len(raw.data)
  /\ \E n \in 0 .. MaxPacket :
       IF n = 0 \/ n > Len(raw.data) - pos THEN pc' = "panic" /\ UNCHANGED pos
       ELSE pos' = pos + n /\ UNCHANGED pc
  /\ UNCHANGED <<world, connected, ack, request, parsed, raw, used, mem, comp, buf, vouched, owned, results>>

TftpClose ==
  /\ pc = "transfer" /\ ~world.uefi /\ pos = Len(raw.data)
  /\ pc' \in {"opened", "panic"}
  /\ pos' = 0
  /\ UNCHANGED <<world, connected, ack, request, parsed, raw, used, mem, comp, buf, vouched, owned, results>>

(* UEFI: the whole file, which may no longer have the size it had          *)
Mtftp ==
  /\ pc = "transfer" /\ world.uefi
  /\ \/ pc' = "opened" /\ UNCHANGED <<raw, owned>>
     \/ pc' = "null" /\ raw' = None /\ owned' = {}
  /\ UNCHANGED <<world, connected, ack, request, parsed, used, mem, comp, buf, pos, vouched, results>>
-----------------------------------------------------------------------------
(* The stream: checked, unpacked, and drained into memory                  *)
Matches == raw.data = DigestOf[parsed.hash]

(* secure_boot_active, the copy of the path, and the filters               *)
Filter ==
  /\ pc = "opened"
  /\ IF world.secure /\ ~parsed.hashed
     THEN pc' = Failure /\ owned' = {}
     ELSE /\ pc' = IF parsed.hashed /\ parsed.gz THEN "compressed" ELSE "drain"
          /\ owned' = owned \cup {"path"} \cup (IF parsed.hashed /\ ~parsed.gz THEN {"hash"} ELSE {})
                      \cup (IF parsed.gz /\ ~parsed.hashed THEN {"gzip"} ELSE {})
  /\ UNCHANGED <<world, connected, ack, request, parsed, raw, used, mem, comp, buf, pos, vouched, results>>

(* Where an unmatched hash leads                                           *)
uri_hash_mismatch == IF world.strict \/ request.optional THEN Failure ELSE "ask"

(* The file as another reading would find it: it may have changed          *)
Reread == {raw} \cup {[raw EXCEPT !.data = d] : d \in DOMAIN world.unpacked}

(* The compressed image is checked where it lies                           *)
LoadCompressed ==
  /\ pc = "compressed"
  /\ \E page \in {Allocate(PagesFor(Len(raw.data)))} :
       IF raw.big /\ world.ia32 THEN pc' = Failure /\ owned' = {} /\ UNCHANGED <<used, mem, comp, raw>>
       ELSE IF page = -1 \/ ~raw.readable THEN pc' = "panic" /\ UNCHANGED <<used, mem, comp, owned, raw>>
       ELSE /\ mem' = Stored(page * Page, raw.data)
            /\ pc' = IF Matches THEN "decoder" ELSE uri_hash_mismatch
            /\ raw' \in Reread
            /\ LET held == Marked(used, page, PagesFor(Len(raw.data)), "reclaim")
               IN  IF pc' = "null"
                   THEN owned' = {} /\ used' = uri_release_range(held, page, Len(raw.data)) /\ UNCHANGED comp
                   ELSE /\ used' = held
                        /\ comp' = [page |-> page, len |-> Len(raw.data)]
                        /\ owned' = (owned \ {"raw"}) \cup {"carrier"}
  /\ vouched' = (pc' = "decoder")
  /\ UNCHANGED <<world, connected, ack, request, parsed, buf, pos, results>>

gzip_open ==
  /\ pc = "decoder"
  /\ pc' = "drain" /\ owned' = owned \cup {"gzip"}
  /\ UNCHANGED <<world, connected, ack, request, parsed, raw, used, mem, comp, buf, pos, vouched, results>>

(* A key at the warning                                                    *)
Answer(yes) ==
  /\ pc = "ask"
  /\ pc' = IF ~yes THEN "menu" ELSE IF comp # None THEN "decoder" ELSE "close"
  /\ vouched' = yes
  /\ UNCHANGED <<world, connected, ack, request, parsed, raw, used, mem, comp, buf, pos, owned, results>>

(* A file that is not compressed, read as its hash is computed             *)
DrainPlain ==
  /\ pc = "drain" /\ ~parsed.gz
  /\ \E page \in {Allocate(PagesFor(Len(raw.data)))} :
       IF page = -1 \/ ~raw.readable THEN pc' = "panic" /\ UNCHANGED <<used, mem, buf, owned>>
       ELSE /\ mem' = Stored(page * Page, raw.data)
            /\ buf' = [page |-> page, cap |-> Len(raw.data), len |-> Len(raw.data), high |-> IsHigh(page)]
            /\ pc' = IF parsed.hashed /\ ~Matches THEN uri_hash_mismatch ELSE "close"
            /\ LET held == Marked(used, page, PagesFor(Len(raw.data)), request.type)
               IN  IF pc' = "null" THEN owned' = {} /\ used' = uri_release_range(held, page, Len(raw.data))
                   ELSE used' = held /\ UNCHANGED owned
  /\ vouched' = (parsed.hashed /\ Matches)
  /\ UNCHANGED <<world, connected, ack, request, parsed, raw, comp, pos, results>>

(* A compressed one, into a buffer that grows.  A buffer above 4 GiB is    *)
(* reached through a pool.                                                 *)
Pool(high) == IF high THEN {"pool"} ELSE {}

DrainBegin ==
  /\ pc = "drain" /\ parsed.gz /\ buf = None
  /\ \E page \in {Allocate(FirstCap \div Page)} :
       IF page = -1 THEN pc' = "panic" /\ UNCHANGED <<used, buf, owned>>
       ELSE /\ used' = Marked(used, page, FirstCap \div Page, request.type)
            /\ buf' = [page |-> page, cap |-> FirstCap, len |-> 0, high |-> IsHigh(page)]
            /\ owned' = owned \cup Pool(IsHigh(page))
            /\ UNCHANGED pc
  /\ UNCHANGED <<world, connected, ack, request, parsed, raw, mem, comp, pos, vouched, results>>

Full == pc = "drain" /\ parsed.gz /\ buf # None /\ buf.len = buf.cap
NewCap == IF buf.cap < DoubleUpTo THEN buf.cap * 2 ELSE buf.cap + DoubleUpTo
Delta == (NewCap - buf.cap) \div Page
Below == (buf.page - Delta) .. (buf.page - 1)
CanExtend == buf.page >= Delta /\ \A p \in Below : used[p] = "usable"

GrowInPlace ==
  /\ Full /\ CanExtend
  /\ used' = Marked(used, buf.page - Delta, Delta, request.type)
  /\ mem' = Stored((buf.page - Delta) * Page, BytesAt(buf.page * Page, buf.len))
  /\ buf' = [buf EXCEPT !.page = @ - Delta, !.cap = NewCap]
  /\ UNCHANGED <<world, connected, ack, request, pc, parsed, raw, comp, pos, vouched, owned, results>>

GrowElsewhere ==
  /\ Full /\ ~CanExtend
  /\ \E page \in {Allocate(NewCap \div Page)} :
       IF page = -1 THEN pc' = "panic" /\ UNCHANGED <<used, mem, buf, owned>>
       ELSE /\ used' = uri_release_range(Marked(used, page, NewCap \div Page, request.type), buf.page, buf.cap)
            /\ mem' = Stored(page * Page, BytesAt(buf.page * Page, buf.len))
            /\ buf' = [buf EXCEPT !.page = page, !.cap = NewCap, !.high = IsHigh(page)]
            /\ owned' = owned \cup Pool(IsHigh(page))
            /\ UNCHANGED pc
  /\ UNCHANGED <<world, connected, ack, request, parsed, raw, comp, pos, vouched, results>>

(* What the decoder reads: the copy that was checked, or else the file     *)
Source == IF comp # None THEN BytesAt(comp.page * Page, comp.len) ELSE raw.data

(* gzip_read(), which gives less than it is asked for at the end alone     *)
Fill ==
  /\ pc = "drain" /\ parsed.gz /\ buf # None /\ buf.len < buf.cap
  /\ LET all == world.unpacked[Source]
         n == Min({buf.cap - buf.len, Stride, Len(all) - pos})
     IN  IF Source \notin DOMAIN world.unpacked \/ (comp = None /\ ~raw.readable)
         THEN pc' = "panic" /\ UNCHANGED <<mem, buf, pos>>
         ELSE IF n = 0 THEN pc' = "trim" /\ UNCHANGED <<mem, buf, pos>>
         ELSE /\ mem' = Stored(buf.page * Page + buf.len, SubSeq(all, pos + 1, pos + n))
              /\ buf' = [buf EXCEPT !.len = @ + n]
              /\ pos' = pos + n
              /\ UNCHANGED pc
  /\ UNCHANGED <<world, connected, ack, request, parsed, raw, used, comp, vouched, owned, results>>

(* The pages past the data, of which one is kept                           *)
Trim ==
  /\ pc = "trim"
  /\ LET kept == PagesFor(buf.len)
     IN  used' = uri_release_range(used, buf.page + kept, buf.cap - kept * Page)
  /\ pc' = "close" /\ owned' = owned \ {"pool"}
  /\ UNCHANGED <<world, connected, ack, request, parsed, raw, mem, comp, buf, pos, vouched, results>>

(* The filters close one another; the handle that is returned is new       *)
Close ==
  /\ pc = "close"
  /\ used' = IF comp = None THEN used ELSE uri_release_range(used, comp.page, comp.len)
  /\ owned' = (owned \ {"raw", "hash", "gzip", "carrier"}) \cup {"out"}
  /\ pc' = "done"
  /\ UNCHANGED <<world, connected, ack, request, parsed, raw, mem, comp, buf, pos, vouched, results>>

(* uri_open_optional() forgets that the resource was optional              *)
Return ==
  /\ pc \in {"done", "null"}
  /\ results' = Append(results, [uri |-> request.uri, type |-> request.type, ok |-> pc = "done",
                                 buf |-> IF pc = "done" THEN buf ELSE None])
  /\ request' = None /\ pc' = "idle" /\ parsed' = None /\ raw' = None /\ comp' = None /\ buf' = None
  /\ pos' = 0 /\ vouched' = FALSE /\ owned' = {}
  /\ UNCHANGED <<world, connected, ack, used, mem>>

Next ==
  \/ Start \/ VolumeDispatch \/ uri_boot_dispatch \/ BadRoot \/ tftp_open \/ TftpRead \/ TftpClose \/ Mtftp
  \/ Filter \/ LoadCompressed \/ gzip_open \/ Answer(TRUE) \/ Answer(FALSE)
  \/ DrainPlain \/ DrainBegin \/ GrowInPlace \/ GrowElsewhere \/ Fill \/ Trim \/ Close \/ Return

Spec == Init /\ [][Next]_vars
-----------------------------------------------------------------------------
(* The bytes a URI stands for, by what its symbols were chosen to mean     *)
Meant == world.meant[request.uri]

Held(rs) == UNION {(rs[i].buf.page) .. (rs[i].buf.page + PagesFor(rs[i].buf.len) - 1) : i \in {j \in DOMAIN rs : rs[j].ok}}
Stray(pages) == {p \in world.free \ pages : used[p] # "usable"}
Empties == {i \in DOMAIN results : ~results[i].ok /\ results[i].uri \in world.empty}

(* What uri_open() returns is, byte for byte, what the URI names, unpacked *)
(* when it asks for that, in memory of the type asked for, and holds no    *)
(* page beyond its own; its bytes matched the hash in the URI, or the user *)
(* went on where neither hash_mismatch_panic nor an optional resource      *)
(* forbids it, and under Secure Boot there was a hash.  No byte is unpacked*)
(* before that.  When it returns nothing it keeps nothing, but the page of *)
(* an empty resource.  What was opened before stays as it was.             *)
ResourceExact ==
  /\ pc = "done" =>
       /\ Meant.there /\ buf.len = Len(Meant.bytes) /\ BytesAt(buf.page * Page, buf.len) = Meant.bytes
       /\ buf.high = IsHigh(buf.page) /\ (buf.high => request.high)
       /\ parsed.hashed => Meant.matches \/ (vouched /\ ~world.strict /\ ~request.optional)
       /\ world.secure => parsed.hashed
       /\ owned = {"out", "path"}
       /\ \A p \in buf.page .. buf.page + PagesFor(buf.len) - 1 : used[p] = request.type
  /\ parsed # None /\ "gzip" \in owned /\ parsed.hashed => vouched
  /\ pc = "null" => (Meant.there => request.optional \/ world.boot.pxe) /\ owned = {}
  /\ pc = "idle" => Cardinality(Stray(Held(results))) <= Cardinality(Empties)
  /\ \A i \in DOMAIN results : results[i].ok =>
       /\ BytesAt(results[i].buf.page * Page, results[i].buf.len) = world.meant[results[i].uri].bytes
       /\ \A p \in Held(<<results[i]>>) : used[p] = results[i].type
=============================================================================
