----------------------------- MODULE VendorTags -----------------------------
(* The vendor tag descriptor (src/libmocha/camera/VendorTagDescriptor.cpp): it *)
(* is built from the tags that a HAL reports, sent in a parcel, read back, and *)
(* made the global one of a process.  Strings are their places in the order of *)
(* the strings.                                                                *)
EXTENDS Integers, Sequences, FiniteSets, SequencesExt, FiniteSetsExt

CONSTANTS Boundary,   \* CAMERA_METADATA_VENDOR_TAG_BOUNDARY
          Ops,        \* what HALs report: sequences of [tag, name, section, type]
          NUM_TYPES

VARIABLES ops,        \* the HAL's tags
          desc,       \* descriptors by address 1, 2: [used, tags, count, sections], see below
          global,     \* sGlobalVendorTagDescriptor: an address, or 0
          libops,     \* the operations that libcamera_metadata calls: an address, or 0
          setting     \* whether setAsGlobalVendorTagDescriptor is between its two writes

vendorVars == <<ops, desc, global, libops, setting>>

\* A descriptor: per tag its name, the index of its section, and its type; the sections in
\* order; and mReverseMapping, from section and name to the tag.
NoTags == [t \in {} |-> 0]
NoDesc == [used |-> FALSE, count |-> 0, tags |-> NoTags, sections |-> <<>>, reverse |-> NoTags]

VendorInit ==
  /\ ops \in Ops /\ desc = [d \in 1 .. 2 |-> NoDesc]
  /\ global = 0 /\ libops = 0 /\ setting = 0

TagsOf(l) == {l[i].tag : i \in DOMAIN l}
LastOf(l, P(_)) == l[Max({i \in DOMAIN l : P(l[i])})]

\* mReverseMapping is filled in the order of the tags, a later one replaces an earlier.
ReverseMapping(l, keyOf) ==
  [k \in Range(keyOf) |-> LastOf(l, LAMBDA e : keyOf[e.tag] = k).tag]

----------------------------------------------------------------------------
\* Mutant: the index is taken when the tag is read, before the later sections are there.
IndexWhenRead(l, e) ==
  LET n == Min({i \in DOMAIN l : l[i].tag = e.tag})
  IN  Cardinality({l[i].section : i \in {j \in 1 .. n : l[j].section < e.section}})

\* The index of a tag's section among all the sections, in order, from 0.
SectionIndex(l, e) == Cardinality({s \in {l[i].section : i \in DOMAIN l} : s < e.section})

Valid(e) == e.tag >= Boundary /\ e.type \in 0 .. NUM_TYPES - 1

\* createDescriptorFromOps: mTagCount is the length of the array.
FromOps(l) ==
  LET E(t) == LastOf(l, LAMBDA e : e.tag = t) IN
  [used |-> TRUE, count |-> Len(l),
   tags |-> [t \in TagsOf(l) |-> [name |-> E(t).name, index |-> SectionIndex(l, E(t)), type |-> E(t).type]],
   sections |-> SetToSortSeq({l[i].section : i \in DOMAIN l}, <),
   reverse |-> ReverseMapping(l, [t \in TagsOf(l) |-> <<E(t).section, E(t).name>>])]
createDescriptorFromOps ==
  /\ ~desc[1].used /\ \A i \in DOMAIN ops : Valid(ops[i])
  /\ desc' = [desc EXCEPT ![1] = FromOps(ops)]
  /\ UNCHANGED <<ops, global, libops, setting>>

\* writeToParcel: mTagCount, the tags in order, the sections.
TagFields(d) ==
  LET ts == SetToSortSeq(DOMAIN d.tags, <) IN
  [i \in DOMAIN ts |-> <<ts[i], d.tags[ts[i]].type, d.tags[ts[i]].name, d.tags[ts[i]].index>>]
Parcel(d) ==
  <<d.count>> \o FlattenSeq(TagFields(d))
    \o (IF d.sections = <<>> THEN <<>> ELSE <<Len(d.sections)>> \o d.sections)

\* createFromParcel: so many tags are taken from the parcel as its count says; the sections
\* only where there are tags.  Anything missing or out of range ends it.
Field(p, i) == IF i \in DOMAIN p THEN p[i] ELSE 0
Entries(p) == [i \in 1 .. Field(p, 1) |-> LET at == 4 * i - 2 IN
                 [tag |-> Field(p, at), type |-> Field(p, at + 1), name |-> Field(p, at + 2),
                  index |-> Field(p, at + 3), last |-> at + 3]]
Sections(p) == LET at == 4 * Field(p, 1) + 2 IN SubSeq(p, at + 1, at + Field(p, at))

ReadableParcel(p) ==
  /\ \A i \in DOMAIN Entries(p) : LET e == Entries(p)[i] IN
       e.last <= Len(p) /\ Valid(e) /\ e.name # 0 /\ e.index < Field(p, 4 * Field(p, 1) + 2)
  /\ Field(p, 1) > 0 =>
       LET at == 4 * Field(p, 1) + 2 IN at <= Len(p) /\ at + Field(p, at) <= Len(p)
FromParcel(p) ==
  LET l == Entries(p)
      E(t) == LastOf(l, LAMBDA e : e.tag = t)
      secs == IF l = <<>> THEN <<>> ELSE SetToSortSeq(Range(Sections(p)), <)
  IN [used |-> TRUE, count |-> Field(p, 1),
      tags |-> [t \in TagsOf(l) |-> [name |-> E(t).name, index |-> E(t).index, type |-> E(t).type]],
      sections |-> secs,
      reverse |-> ReverseMapping(l, [t \in TagsOf(l) |-> <<secs[E(t).index + 1], E(t).name>>])]
createFromParcel ==
  /\ desc[1].used /\ ~desc[2].used
  /\ LET p == Parcel(desc[1]) IN
     ReadableParcel(p) /\ desc' = [desc EXCEPT ![2] = FromParcel(p)]
  /\ UNCHANGED <<ops, global, libops, setting>>

----------------------------------------------------------------------------
\* setAsGlobalVendorTagDescriptor, under sLock: the reference, then the library's pointer.
setAsGlobal(d) ==
  /\ setting = 0 /\ (d # 0 => desc[d].used)
  /\ global' = d /\ setting' = 1
  /\ UNCHANGED <<ops, desc, libops>>

GlobalOps == global
setLibraryOps ==
  /\ setting = 1 /\ setting' = 0
  /\ libops' = GlobalOps
  /\ UNCHANGED <<ops, desc, global>>

\* clearGlobalVendorTagDescriptor: the library's pointer first.
clearGlobal ==
  /\ setting = 0
  /\ libops' = 0 /\ global' = 0
  /\ UNCHANGED <<ops, desc, setting>>

\* The last reference of a descriptor goes: its memory, the operations in it too, is freed.
dropDescriptor(d) ==
  /\ desc[d].used /\ global # d
  /\ desc' = [desc EXCEPT ![d] = NoDesc]
  /\ UNCHANGED <<ops, global, libops, setting>>

VendorNext ==
  \/ createDescriptorFromOps \/ createFromParcel \/ setLibraryOps \/ clearGlobal
  \/ \E d \in 0 .. 2 : setAsGlobal(d)
  \/ \E d \in 1 .. 2 : dropDescriptor(d)

----------------------------------------------------------------------------
\* getSectionName and lookupTag
getSectionName(d, t) == d.sections[d.tags[t].index + 1]

\* Every tag is in the section that the HAL named for it, also after a parcel, whatever the
\* order in which the sections turn up; and lookupTag finds for its name and section a tag
\* that has this name and section.
SectionsAsReported ==
  \A d \in 1 .. 2 : desc[d].used =>
    /\ \A i \in DOMAIN ops : ops[i].tag \in DOMAIN desc[d].tags
    /\ \A t \in DOMAIN desc[d].tags :
         LET s == getSectionName(desc[d], t) n == desc[d].tags[t].name
             found == desc[d].reverse[<<s, n>>]
         IN  /\ \E i \in DOMAIN ops : ops[i].tag = t /\ ops[i].section = s /\ ops[i].name = n
             /\ desc[d].tags[found].name = n /\ getSectionName(desc[d], found) = s

\* Outside setAsGlobalVendorTagDescriptor the library calls into the global descriptor or
\* into nothing, never into one that is gone.
LibraryCallsGlobal == setting = 0 => libops = global /\ (libops # 0 => desc[libops].used)

\* Vendor tags are what the HAL reported, and asked of a descriptor that exists.
TagsSound == SectionsAsReported /\ LibraryCallsGlobal
=============================================================================
