-------------------------- MODULE ConfigStoreProofs --------------------------
(***************************************************************************)
(* The base directory, for every configuration of it, any number of        *)
(* commands, failing renames and crashes:                                  *)
(*   - TypeOK: whatever is written, in files, drafts, archives and in what *)
(*     an import moves, is made of documents;                              *)
(*   - the base directory implements the atomic store.  The only long      *)
(*     command is the import; the invariant says what it has done and what *)
(*     it still holds in each of its phases;                               *)
(*   - no command loses a draft, and one that succeeds leaves a base       *)
(*     directory that loads: the candidate was checked in its place among  *)
(*     the stacks, and is read back in the order of the files;             *)
(*   - a clone refers to itself where its source does; ports allocated are *)
(*     free; a member added can be removed and nothing of it remains.      *)
(***************************************************************************)
EXTENDS ConfigStore, DocumentFacts

(***************************************************************************)
(* Documents keep their shape.                                             *)
(***************************************************************************)

\* Lists whose elements have the shape of their kind.
InboundList(list) == IsList(list) /\ \A k \in DOMAIN list : InboundShape(list[k])
ListenerList(list) == IsList(list) /\ \A k \in DOMAIN list : ListenerShape(list[k])
UpstreamList(list) == IsList(list) /\ \A k \in DOMAIN list : UpstreamShape(list[k])
GroupList(list) == IsList(list) /\ \A k \in DOMAIN list : GroupShape(list[k])

\* A document keeps its shape if its lists are replaced by lists of the same kind.
LEMMA WithXray ==
    ASSUME NEW s, StackShape(s), NEW x, XrayShape(x)
    PROVE  StackShape([s EXCEPT !.xray = x])
  <1>1. IsRecord([s EXCEPT !.xray = x])
    BY DEF IsRecord
  <1> QED
    BY <1>1 DEF StackShape

\* So does it with another clash part,
LEMMA WithClash ==
    ASSUME NEW s, StackShape(s), NEW c, ClashShape(c)
    PROVE  StackShape([s EXCEPT !.clash = c])
  <1>1. IsRecord([s EXCEPT !.clash = c])
    BY DEF IsRecord
  <1> QED
    BY <1>1 DEF StackShape

\* other inbounds,
LEMMA WithInbounds ==
    ASSUME NEW s, StackShape(s), NEW list, InboundList(list)
    PROVE  StackShape([s EXCEPT !.xray.inbounds = list])
  <1>1. XrayShape([s.xray EXCEPT !.inbounds = list])
    BY DEF StackShape, XrayShape, ListOf, InboundList
  <1>2. [s EXCEPT !.xray.inbounds = list] = [s EXCEPT !.xray = [s.xray EXCEPT !.inbounds = list]]
    OBVIOUS
  <1> QED
    BY <1>1, <1>2, WithXray

\* other upstreams,
LEMMA WithUpstreams ==
    ASSUME NEW s, StackShape(s), NEW list, UpstreamList(list)
    PROVE  StackShape([s EXCEPT !.clash.upstreams = list])
  <1>0. IsRecord([s.clash EXCEPT !.upstreams = list])
    BY DEF IsRecord
  <1>1. ClashShape([s.clash EXCEPT !.upstreams = list])
    BY <1>0 DEF StackShape, ClashShape, ListOf, UpstreamList
  <1>2. [s EXCEPT !.clash.upstreams = list] = [s EXCEPT !.clash = [s.clash EXCEPT !.upstreams = list]]
    OBVIOUS
  <1> QED
    BY <1>1, <1>2, WithClash

\* or other groups.
LEMMA WithGroups ==
    ASSUME NEW s, StackShape(s), NEW list, GroupList(list)
    PROVE  StackShape([s EXCEPT !.clash.groups = list])
  <1>0. IsRecord([s.clash EXCEPT !.groups = list])
    BY DEF IsRecord
  <1>1. ClashShape([s.clash EXCEPT !.groups = list])
    BY <1>0 DEF StackShape, ClashShape, ListOf, GroupList
  <1>2. [s EXCEPT !.clash.groups = list] = [s EXCEPT !.clash = [s.clash EXCEPT !.groups = list]]
    OBVIOUS
  <1> QED
    BY <1>1, <1>2, WithClash

\* The lists of a document.
LEMMA ShapeLists ==
    ASSUME NEW s, StackShape(s)
    PROVE  /\ InboundList(s.xray.inbounds) /\ UpstreamList(s.clash.upstreams)
           /\ GroupList(s.clash.groups)
           /\ ListenerList(s.clash.listeners.socks) /\ ListenerList(s.clash.listeners.http)
  BY DEF StackShape, XrayShape, ClashShape, ListOf, InboundList, ListenerList, UpstreamList, GroupList

\* A reference is still one when its first segment is replaced.
LEMMA RewrittenRef ==
    ASSUME NEW doc, NEW source, NEW target, NEW ref, IsList(ref)
    PROVE  IsList(RewriteRef(doc, source, target, ref))
  <1> DEFINE new == [ref EXCEPT ![1] = target]
  <1>1. DOMAIN ref = 1..Len(ref) /\ Len(ref) \in Nat
    BY ListShape
  <1>2. new = [k \in 1..Len(ref) |-> new[k]]
    BY <1>1
  <1> HIDE DEF new
  <1>3. IsList(new)
    BY <1>1, <1>2, FunctionIsList
  <1> QED
    BY <1>3 DEF RewriteRef, new

\* Rewriting the ref of its outbound keeps the shape of a document (rewriteXrayOutboundRef),
LEMMA OutboundRefShape ==
    ASSUME NEW doc, StackShape(doc), NEW source, NEW target
    PROVE  StackShape(rewriteXrayOutboundRef(doc, source, target))
  <1> DEFINE ref == RewriteRef(doc, source, target, doc.xray.outbound.ref)
             x == [doc.xray EXCEPT !.outbound = [doc.xray.outbound EXCEPT !.ref = ref]]
  <1>1. IsList(ref)
    BY RewrittenRef DEF StackShape, XrayShape
  <1>2. [doc EXCEPT !.xray.outbound.ref = ref] = [doc EXCEPT !.xray = x]
    OBVIOUS
  <1>3. rewriteXrayOutboundRef(doc, source, target) \in {doc, [doc EXCEPT !.xray.outbound.ref = ref]}
    BY DEF rewriteXrayOutboundRef
  <1> HIDE DEF ref
  <1>4. XrayShape(x)
    BY <1>1 DEF StackShape, XrayShape, ListOf
  <1> HIDE DEF x
  <1> QED
    BY <1>2, <1>3, <1>4, WithXray

\* so does rewriting all its refs to itself (rewriteSelfRefsInNode),
LEMMA SelfRefsShape ==
    ASSUME NEW doc, StackShape(doc), NEW source, NEW target
    PROVE  StackShape(rewriteSelfRefsInNode(doc, source, target))
  <1> DEFINE base == rewriteXrayOutboundRef(doc, source, target)
             old == base.clash.upstreams
             One(u) == IF u.type = "xray-socks5"
                       THEN [u EXCEPT !.ref = RewriteRef(doc, source, target, @)] ELSE u
             new == [k \in DOMAIN old |-> One(old[k])]
  <1>1. rewriteSelfRefsInNode(doc, source, target) = [base EXCEPT !.clash.upstreams = new \o <<>>]
    BY DEF rewriteSelfRefsInNode, Column
  <1>2. StackShape(base)
    BY OutboundRefShape
  <1>3. UpstreamList(old)
    BY <1>2, ShapeLists
  <1>4. ASSUME NEW u, UpstreamShape(u)
        PROVE  UpstreamShape(One(u))
    <2> DEFINE ref == RewriteRef(doc, source, target, u.ref)
    <2>1. IsList(ref)
      BY <1>4, RewrittenRef DEF UpstreamShape
    <2>2. One(u) \in {u, [u EXCEPT !.ref = ref]}
      OBVIOUS
    <2> HIDE DEF ref, One
    <2> QED
      BY <1>4, <2>1, <2>2 DEF UpstreamShape
  <1> HIDE DEF base, One, old
  <1>5. new = [k \in DOMAIN old |-> new[k]] /\ \A k \in DOMAIN old : new[k] = One(old[k])
    OBVIOUS
  <1> HIDE DEF new
  <1>6. new \o <<>> = new /\ IsList(new) /\ DOMAIN new = DOMAIN old
    BY <1>3, <1>5, ColumnFacts DEF UpstreamList
  <1>7. UpstreamList(new)
    BY <1>3, <1>4, <1>5, <1>6 DEF UpstreamList
  <1> QED
    BY <1>1, <1>2, <1>6, <1>7, WithUpstreams

\* A document with another name, or switched off, keeps its shape.
LEMMA RenamedShape ==
    ASSUME NEW doc, StackShape(doc), NEW value
    PROVE  StackShape([doc EXCEPT !.name = value]) /\ StackShape([doc EXCEPT !.enabled = value])
  <1>1. IsRecord([doc EXCEPT !.name = value]) /\ IsRecord([doc EXCEPT !.enabled = value])
    BY DEF IsRecord
  <1> QED
    BY <1>1 DEF StackShape

\* and rewriting its remarks (rewriteSubscriptionRemarksInNode).
LEMMA RemarksShape ==
    ASSUME NEW doc, StackShape(doc), NEW source, NEW target
    PROVE  StackShape(rewriteSubscriptionRemarksInNode(doc, source, target))
  <1> DEFINE old == doc.xray.inbounds
             Entries(list) == Column(list, LAMBDA u : replaceRemarkPrefix(u, source, target))
             One(i) == [replaceRemarkPrefix(i, source, target) EXCEPT !.users = Entries(@),
                                                                     !.user_refs = Entries(@)]
             new == [k \in DOMAIN old |-> One(old[k])]
  <1>1. rewriteSubscriptionRemarksInNode(doc, source, target) = [doc EXCEPT !.xray.inbounds = new \o <<>>]
    BY DEF rewriteSubscriptionRemarksInNode, Column
  <1>2. InboundList(old)
    BY ShapeLists
  <1>3. ASSUME NEW list, IsList(list)
        PROVE  IsList(Entries(list))
    <2> DEFINE cells == [k \in DOMAIN list |-> replaceRemarkPrefix(list[k], source, target)]
    <2>1. Entries(list) = cells \o <<>>
      BY DEF Column
    <2>2. cells = [k \in DOMAIN list |-> cells[k]]
      OBVIOUS
    <2> HIDE DEF cells
    <2> QED
      BY <1>3, <2>1, <2>2, ColumnFacts
  <1> HIDE DEF Entries
  <1>4. ASSUME NEW i, InboundShape(i)
        PROVE  InboundShape(One(i))
    <2> DEFINE j == replaceRemarkPrefix(i, source, target)
    <2>1. j \in {i, [i EXCEPT !.remark = target]}
      BY DEF replaceRemarkPrefix
    <2>2. DOMAIN j = DOMAIN i /\ j.users = i.users /\ j.user_refs = i.user_refs
      BY <1>4, <2>1 DEF InboundShape, InboundFields
    <2> HIDE DEF j
    <2>3. /\ DOMAIN One(i) = DOMAIN i
          /\ One(i).users = Entries(i.users) /\ One(i).user_refs = Entries(i.user_refs)
      BY <1>4, <2>2 DEF InboundShape, InboundFields, j
    <2> HIDE DEF One
    <2> QED
      BY <1>3, <1>4, <2>3 DEF InboundShape
  <1> HIDE DEF One
  <1>5. new = [k \in DOMAIN old |-> new[k]] /\ \A k \in DOMAIN old : new[k] = One(old[k])
    OBVIOUS
  <1> HIDE DEF new
  <1>6. new \o <<>> = new /\ IsList(new) /\ DOMAIN new = DOMAIN old
    BY <1>2, <1>5, ColumnFacts DEF InboundList
  <1>7. InboundList(new)
    BY <1>2, <1>4, <1>5, <1>6 DEF InboundList
  <1> QED
    BY <1>1, <1>6, <1>7, WithInbounds

\* A list of inbounds or listeners with other ports.
LEMMA WithPortsShape ==
    ASSUME NEW list, NEW ports
    PROVE  /\ InboundList(list) => InboundList(WithPorts(list, ports))
           /\ ListenerList(list) => ListenerList(WithPorts(list, ports))
  <1> DEFINE new == [k \in DOMAIN list |-> [list[k] EXCEPT !.port = ports[k]]]
  <1>1. WithPorts(list, ports) = new \o <<>>
    BY DEF WithPorts
  <1>2. new = [k \in DOMAIN list |-> new[k]] /\ \A k \in DOMAIN list : new[k] = [list[k] EXCEPT !.port = ports[k]]
    OBVIOUS
  <1> HIDE DEF new
  <1>3. ASSUME IsList(list)
        PROVE  new \o <<>> = new /\ IsList(new) /\ DOMAIN new = DOMAIN list
    BY <1>2, <1>3, ColumnFacts
  <1>4. ASSUME InboundList(list)
        PROVE  InboundList(new)
    BY <1>2, <1>3, <1>4 DEF InboundList, InboundShape, InboundFields
  <1>5. ASSUME ListenerList(list)
        PROVE  ListenerList(new)
    BY <1>2, <1>3, <1>5 DEF ListenerList, ListenerShape
  <1> QED
    BY <1>1, <1>3, <1>4, <1>5 DEF InboundList, ListenerList

\* What a document is with the ports t taken for it (allocateStackDocumentPorts).
APIAt(api, port) ==
    Put(api, "listen", <<IF "listen" \in DOMAIN api THEN api.listen[1] ELSE "127.0.0.1", port>>)
XrayWith(doc, t) ==
    [doc.xray EXCEPT !.inbounds = WithPorts(doc.xray.inbounds, t.xray_inbound),
                     !.api = IF OwnAPI(doc) THEN APIAt(doc.xray.api, t.xray_api_range[1])
                             ELSE doc.xray.api]
ClashWith(doc, t) ==
    [doc.clash EXCEPT
        !.listeners = [doc.clash.listeners EXCEPT
                          !.socks = WithPorts(doc.clash.listeners.socks, t.clash_socks),
                          !.http = WithPorts(doc.clash.listeners.http, t.clash_http)],
        !.controller = [doc.clash.controller EXCEPT
                           !.listen = [doc.clash.controller.listen EXCEPT ![2] = t.clash_controller[1]]]]
Taken(doc, set) == AllocatePorts(set.config.port_ranges, usedPorts(set), PortRequests(doc))

\* A document with ports is the document it was made of, with these parts replaced.
LEMMA AllocatedAs ==
    ASSUME NEW doc, StackShape(doc), NEW set, NEW new \in allocateStackDocumentPorts(doc, set)
    PROVE  \E t \in Taken(doc, set) :
               new = [doc EXCEPT !.xray = XrayWith(doc, t), !.clash = ClashWith(doc, t)]
  <1> DEFINE API(t) == IF OwnAPI(doc) THEN APIAt(doc.xray.api, t.xray_api_range[1]) ELSE doc.xray.api
             Inbounds(t) == WithPorts(doc.xray.inbounds, t.xray_inbound)
             Socks(t) == WithPorts(doc.clash.listeners.socks, t.clash_socks)
             Http(t) == WithPorts(doc.clash.listeners.http, t.clash_http)
             taken == Taken(doc, set)
  <1>1. allocateStackDocumentPorts(doc, set) =
           {[doc EXCEPT !.xray.inbounds = Inbounds(t), !.xray.api = API(t),
                        !.clash.listeners.socks = Socks(t), !.clash.listeners.http = Http(t),
                        !.clash.controller.listen[2] = t.clash_controller[1]] : t \in taken}
    BY DEF allocateStackDocumentPorts, Taken, APIAt
  <1> HIDE DEF taken, API, Inbounds, Socks, Http
  <1>2. PICK t \in taken :
           new = [doc EXCEPT !.xray.inbounds = Inbounds(t), !.xray.api = API(t),
                        !.clash.listeners.socks = Socks(t), !.clash.listeners.http = Http(t),
                        !.clash.controller.listen[2] = t.clash_controller[1]]
    BY <1>1
  <1> DEFINE inbounds == Inbounds(t)
             api == API(t)
             socks == Socks(t)
             http == Http(t)
             controller == t.clash_controller[1]
             x == [doc.xray EXCEPT !.inbounds = inbounds, !.api = api]
             c == [doc.clash EXCEPT !.listeners = [doc.clash.listeners EXCEPT !.socks = socks, !.http = http],
                                    !.controller = [doc.clash.controller EXCEPT
                                        !.listen = [doc.clash.controller.listen EXCEPT ![2] = controller]]]
  <1>3. x = XrayWith(doc, t) /\ c = ClashWith(doc, t)
    BY DEF XrayWith, ClashWith, API, Inbounds, Socks, Http
  <1> HIDE DEF inbounds, api, socks, http, controller
  <1>4. new = [doc EXCEPT !.xray = x, !.clash = c]
    BY <1>2, ZenonT(30) DEF StackShape, XrayShape, ClashShape, inbounds, api, socks, http, controller
  <1> HIDE DEF x, c
  <1> QED
    BY <1>3, <1>4 DEF taken

\* A document has its shape with the ports allocated for it (allocateStackDocumentPorts),
LEMMA AllocatedShape ==
    ASSUME NEW doc, StackShape(doc), NEW set, NEW new \in allocateStackDocumentPorts(doc, set)
    PROVE  StackShape(new)
  <1>1. PICK t \in Taken(doc, set) :
            new = [doc EXCEPT !.xray = XrayWith(doc, t), !.clash = ClashWith(doc, t)]
    BY AllocatedAs
  <1> DEFINE inbounds == WithPorts(doc.xray.inbounds, t.xray_inbound)
             socks == WithPorts(doc.clash.listeners.socks, t.clash_socks)
             http == WithPorts(doc.clash.listeners.http, t.clash_http)
             api == IF OwnAPI(doc) THEN APIAt(doc.xray.api, t.xray_api_range[1]) ELSE doc.xray.api
             controller == t.clash_controller[1]
             x == XrayWith(doc, t)
             c == ClashWith(doc, t)
  <1>2. InboundList(inbounds) /\ ListenerList(socks) /\ ListenerList(http)
    BY ShapeLists, WithPortsShape
  <1>3. /\ x = [doc.xray EXCEPT !.inbounds = inbounds, !.api = api]
        /\ c = [doc.clash EXCEPT !.listeners = [doc.clash.listeners EXCEPT !.socks = socks, !.http = http],
                                    !.controller = [doc.clash.controller EXCEPT
                                        !.listen = [doc.clash.controller.listen EXCEPT ![2] = controller]]]
    BY DEF XrayWith, ClashWith
  <1> HIDE DEF inbounds, api, socks, http, controller, x, c
  <1>4. XrayShape(x)
    BY <1>2, <1>3 DEF StackShape, XrayShape, ListOf, InboundList
  <1>5. ClashShape(c)
    <2>1. IsRecord(c)
      BY DEF c, ClashWith, IsRecord
    <2> QED
      BY <1>2, <1>3, <2>1 DEF StackShape, ClashShape, ListOf, ListenerList
  <1>6. new = [doc EXCEPT !.xray = x, !.clash = c]
    BY <1>1 DEF x, c
  <1>7. IsRecord(new)
    BY <1>6 DEF IsRecord
  <1> QED
    BY <1>4, <1>5, <1>6, <1>7 DEF StackShape

\* and with the users of the config in its refs (applyConfigUserProfileToTemplateRefs).
LEMMA ProfilesShape ==
    ASSUME NEW doc, StackShape(doc), NEW users, NEW new \in applyConfigUserProfileToTemplateRefs(doc, users)
    PROVE  StackShape(new)
  <1> DEFINE old == doc.xray.inbounds
             Own(r) == IF UserProfileKey(r) = <<"user1", "default">>
                       THEN [r EXCEPT !.user = users[1].user, !.profile = UserProfileKey(users[1])[2]]
                       ELSE r
             Refs(list) == Column(list, Own)
             One(i) == [i EXCEPT !.user_refs = Refs(@)]
             cells == [k \in DOMAIN old |-> One(old[k])]
  <1>1. new = [doc EXCEPT !.xray.inbounds = cells \o <<>>]
    BY DEF applyConfigUserProfileToTemplateRefs, Column
  <1>2. InboundList(old)
    BY ShapeLists
  <1>3. ASSUME NEW list, IsList(list)
        PROVE  IsList(Refs(list))
    <2> DEFINE refs == [k \in DOMAIN list |-> Own(list[k])]
    <2>1. Refs(list) = refs \o <<>>
      BY DEF Column
    <2> HIDE DEF Own
    <2>2. refs = [k \in DOMAIN list |-> refs[k]]
      OBVIOUS
    <2> HIDE DEF refs
    <2> QED
      BY <1>3, <2>1, <2>2, ColumnFacts
  <1> HIDE DEF Refs
  <1>4. ASSUME NEW i, InboundShape(i)
        PROVE  InboundShape(One(i))
    BY <1>3, <1>4 DEF InboundShape, InboundFields
  <1> HIDE DEF One
  <1>5. cells = [k \in DOMAIN old |-> cells[k]] /\ \A k \in DOMAIN old : cells[k] = One(old[k])
    OBVIOUS
  <1> HIDE DEF cells
  <1>6. cells \o <<>> = cells /\ IsList(cells) /\ DOMAIN cells = DOMAIN old
    BY <1>2, <1>5, ColumnFacts DEF InboundList
  <1>7. InboundList(cells)
    BY <1>2, <1>4, <1>5, <1>6 DEF InboundList
  <1> QED
    BY <1>1, <1>6, <1>7, WithInbounds

\* Groups with other proxies are still groups.
LEMMA ChangedGroups ==
    ASSUME NEW old, GroupList(old), NEW new, IsList(new), DOMAIN new = DOMAIN old,
           \A k \in DOMAIN old : \E p : IsList(p) /\ new[k] \in {old[k], [old[k] EXCEPT !.proxies = p]}
    PROVE  GroupList(new)
  <1> SUFFICES ASSUME NEW k \in DOMAIN old PROVE GroupShape(new[k])
    BY DEF GroupList
  <1>1. PICK p : IsList(p) /\ new[k] \in {old[k], [old[k] EXCEPT !.proxies = p]}
    OBVIOUS
  <1>2. IsRecord([old[k] EXCEPT !.proxies = p])
    BY DEF IsRecord
  <1> QED
    BY <1>1, <1>2 DEF GroupList, GroupShape

\* One more element at the end, one more in the middle, and the part of a list that passes a test.
LEMMA AppendedList ==
    ASSUME NEW list, IsList(list), NEW e
    PROVE  /\ Append(list, e) = list \o <<e>> /\ IsList(Append(list, e))
           /\ Len(Append(list, e)) = Len(list) + 1
           /\ \A k \in DOMAIN list : Append(list, e)[k] = list[k]
           /\ Append(list, e)[Len(list) + 1] = e
           /\ ToSet(Append(list, e)) = ToSet(list) \cup {e}
  <1>1. IsList(<<e>>) /\ Len(<<e>>) = 1 /\ <<e>>[1] = e /\ ToSet(<<e>>) = {e}
    BY SingletonList
  <1>2. Append(list, e) = list \o <<e>>
    BY DEF IsList
  <1>3. DOMAIN list = 1..Len(list) /\ Len(list) \in Nat
    BY ListShape
  <1> QED
    BY <1>1, <1>2, <1>3, ListConcat

\* A list with one more element, by places.
Longer(new, list, e) ==
    /\ Len(list) \in Nat /\ DOMAIN list = 1..Len(list)
    /\ IsList(new) /\ Len(new) = Len(list) + 1 /\ DOMAIN new = 1..(Len(list) + 1)
    /\ new = [k \in 1..(Len(list) + 1) |-> new[k]]
    /\ \A k \in 1..Len(list) : new[k] = list[k]
    /\ new[Len(list) + 1] = e

\* What appending makes is that list.
LEMMA LongerList ==
    ASSUME NEW list, IsList(list), NEW e, NEW new, new = Append(list, e)
    PROVE  Longer(new, list, e)
  <1>1. Len(list) \in Nat /\ DOMAIN list = 1..Len(list)
    BY ListShape
  <1> DEFINE more == Append(list, e)
  <1>2. /\ more = list \o <<e>> /\ IsList(more) /\ Len(more) = Len(list) + 1
        /\ \A k \in DOMAIN list : more[k] = list[k]
        /\ more[Len(list) + 1] = e
        /\ ToSet(more) = ToSet(list) \cup {e}
    BY AppendedList
  <1>3. /\ IsList(new) /\ Len(new) = Len(list) + 1
        /\ \A k \in DOMAIN list : new[k] = list[k]
        /\ new[Len(list) + 1] = e
    BY <1>2, Zenon
  <1>4. DOMAIN new = 1..Len(new) /\ new = [k \in 1..Len(new) |-> new[k]]
    BY <1>3, ListShape
  <1>5. DOMAIN new = 1..(Len(list) + 1) /\ new = [k \in 1..(Len(list) + 1) |-> new[k]]
    BY <1>3, <1>4, Zenon
  <1>6. \A k \in 1..Len(list) : new[k] = list[k]
    BY <1>1, <1>3, Zenon
  <1> QED
    BY <1>1, <1>3, <1>5, <1>6 DEF Longer

\* Its elements are those of the list and the new one.
LEMMA LongerSet ==
    ASSUME NEW list, NEW e, NEW new, Longer(new, list, e)
    PROVE  ToSet(new) = ToSet(list) \cup {e}
  <1>1. /\ Len(list) \in Nat /\ DOMAIN list = 1..Len(list) /\ DOMAIN new = 1..(Len(list) + 1)
        /\ \A k \in 1..Len(list) : new[k] = list[k]
        /\ new[Len(list) + 1] = e
    BY DEF Longer
  <1>2. 1..(Len(list) + 1) = (1..Len(list)) \cup {Len(list) + 1}
    BY <1>1
  <1> QED
    BY <1>1, <1>2 DEF ToSet

\* Inserting splits a list in two and puts one element between the halves.
LEMMA InsertedList ==
    ASSUME NEW list, IsList(list), NEW k \in DOMAIN list, NEW e
    PROVE  /\ IsList(SubSeq(list, 1, k - 1)) /\ IsList(SubSeq(list, k, Len(list)))
           /\ list = SubSeq(list, 1, k - 1) \o SubSeq(list, k, Len(list))
           /\ InsertAt(list, k, e) = (SubSeq(list, 1, k - 1) \o <<e>>) \o SubSeq(list, k, Len(list))
           /\ IsList(InsertAt(list, k, e))
  <1> DEFINE L == Len(list)
             a == SubSeq(list, 1, k - 1)
             b == SubSeq(list, k, Len(list))
  <1>1. L \in Nat /\ DOMAIN list = 1..L /\ list \in Seq(ToSet(list))
    BY ListShape DEF IsList
  <1>2. k \in 1..L
    BY <1>1
  <1>3. a = [m \in 1..(k - 1) |-> list[m]]
    BY <1>1, <1>2
  <1>4. b = [m \in 1..(L - k + 1) |-> list[m + k - 1]]
    BY <1>1, <1>2
  <1> HIDE DEF a, b
  <1>5. IsList(a) /\ Len(a) = k - 1
    BY <1>2, <1>3, FunctionIsList
  <1>6. IsList(b) /\ Len(b) = L - k + 1
    BY <1>1, <1>2, <1>4, FunctionIsList
  <1>7. list = a \o b
    <2> DEFINE both == a \o b
    <2>1. /\ IsList(both) /\ Len(both) = L
          /\ \A m \in 1..(k - 1) : both[m] = a[m]
          /\ \A m \in 1..(L - k + 1) : both[k - 1 + m] = b[m]
      <3>3. IsList(a) /\ IsList(b)
        BY <1>5, <1>6
      <3>1. /\ IsList(both) /\ Len(both) = Len(a) + Len(b)
            /\ \A m \in 1..Len(a) : both[m] = a[m]
            /\ \A m \in 1..Len(b) : both[Len(a) + m] = b[m]
        BY <3>3, ListConcat
      <3>2. (k - 1) + (L - k + 1) = L
        BY <1>1, <1>2
      <3> HIDE DEF both
      <3> QED
        BY <1>5, <1>6, <3>1, <3>2
    <2> HIDE DEF both
    <2>2. ASSUME NEW m \in 1..L
          PROVE  both[m] = list[m]
      <3>1. CASE m < k
        BY <1>1, <1>2, <1>3, <2>1, <3>1
      <3>2. CASE m >= k
        <4>1. m - k + 1 \in 1..(L - k + 1) /\ k - 1 + (m - k + 1) = m
          BY <1>1, <1>2, <3>2
        <4>2. both[m] = b[m - k + 1] /\ b[m - k + 1] = list[(m - k + 1) + k - 1]
          BY <1>4, <2>1, <4>1
        <4>3. (m - k + 1) + k - 1 = m
          BY <1>1, <1>2
        <4> QED
          BY <4>2, <4>3
      <3> QED
        BY <1>1, <1>2, <3>1, <3>2
    <2>3. both = [m \in 1..L |-> both[m]] /\ list = [m \in 1..L |-> list[m]]
      BY <2>1, ListShape
    <2>4. [m \in 1..L |-> both[m]] = [m \in 1..L |-> list[m]]
      BY <2>2
    <2>5. both = list
      BY <2>3, <2>4
    <2> QED
      BY <2>5 DEF both
  <1>8. InsertAt(list, k, e) = (a \o <<e>>) \o b
    BY DEF InsertAt, a, b
  <1>9. IsList(InsertAt(list, k, e))
    BY <1>5, <1>6, <1>8, ListConcat, SingletonList
  <1> QED
    BY <1>5, <1>6, <1>7, <1>8, <1>9 DEF a, b

\* SelectInSeq finds an element that is there.
LEMMA FoundPlace ==
    ASSUME NEW list, IsList(list), NEW e \in ToSet(list)
    PROVE  LET k == SelectInSeq(list, LAMBDA p : p = e) IN k \in DOMAIN list /\ list[k] = e
  <1> DEFINE I == {i \in 1..Len(list) : list[i] = e}
  <1>1. Len(list) \in Nat /\ DOMAIN list = 1..Len(list)
    BY ListShape
  <1>2. I # {} /\ I \subseteq Nat
    BY <1>1 DEF ToSet
  <1>3. SelectInSeq(list, LAMBDA p : p = e) = Min(I)
    BY <1>2 DEF SelectInSeq
  <1> HIDE DEF I
  <1>4. \E m \in I : \A k \in I : m <= k
    BY <1>2, LeastNumber
  <1>5. Min(I) \in I
    BY <1>4 DEF Min
  <1> QED
    BY <1>1, <1>3, <1>5 DEF I

\* The groups of an auto stack follow its members.
LEMMA AppendedName ==
    ASSUME NEW proxies, IsList(proxies), NEW name
    PROVE  IsList(appendProxyName(proxies, name)) /\ IsList(insertProxyNameBeforeDirect(proxies, name))
  <1>1. IsList(Append(proxies, name))
    <2>1. Longer(Append(proxies, name), proxies, name)
      BY LongerList
    <2> QED
      BY <2>1 DEF Longer
  <1>2. ASSUME "DIRECT" \in ToSet(proxies)
        PROVE  IsList(InsertAt(proxies, SelectInSeq(proxies, LAMBDA p : p = "DIRECT"), name))
    <2> DEFINE k == SelectInSeq(proxies, LAMBDA p : p = "DIRECT")
    <2>1. k \in DOMAIN proxies
      BY <1>2, FoundPlace
    <2> HIDE DEF k
    <2>2. IsList(InsertAt(proxies, k, name))
      BY <2>1, InsertedList
    <2> QED
      BY <2>2 DEF k
  <1> QED
    BY <1>1, <1>2 DEF appendProxyName, insertProxyNameBeforeDirect

\* Adding a proxy to the groups keeps the shape of a document (syncMemberProxyAdd),
LEMMA SyncAddShape ==
    ASSUME NEW doc, StackShape(doc), NEW name
    PROVE  StackShape(syncMemberProxyAdd(doc, name))
  <1> DEFINE old == doc.clash.groups
             autos == autoProxyGroupNames(doc)
             One(g) == IF IsAutoGroup(g) THEN [g EXCEPT !.proxies = appendProxyName(@, name)]
                       ELSE IF g.type = "select" /\ ToSet(g.proxies) \cap autos # {}
                            THEN [g EXCEPT !.proxies = insertProxyNameBeforeDirect(@, name)]
                            ELSE g
             new == [k \in DOMAIN old |-> One(old[k])]
  <1>1. syncMemberProxyAdd(doc, name) = [doc EXCEPT !.clash.groups = new \o <<>>]
    BY DEF syncMemberProxyAdd, Column
  <1>2. GroupList(old)
    BY ShapeLists
  <1> HIDE DEF autos
  <1>3. ASSUME NEW g, GroupShape(g)
        PROVE  \E p : IsList(p) /\ One(g) \in {g, [g EXCEPT !.proxies = p]}
    <2> DEFINE a == appendProxyName(g.proxies, name)
               b == insertProxyNameBeforeDirect(g.proxies, name)
    <2>1. IsList(a) /\ IsList(b)
      BY <1>3, AppendedName DEF GroupShape
    <2>2. One(g) \in {g, [g EXCEPT !.proxies = a], [g EXCEPT !.proxies = b]}
      OBVIOUS
    <2> HIDE DEF a, b, One
    <2> QED
      BY <2>1, <2>2
  <1> HIDE DEF One
  <1>5. new = [k \in DOMAIN old |-> new[k]] /\ \A k \in DOMAIN old : new[k] = One(old[k])
    OBVIOUS
  <1> HIDE DEF new
  <1>6. new \o <<>> = new /\ IsList(new) /\ DOMAIN new = DOMAIN old
    BY <1>2, <1>5, ColumnFacts DEF GroupList
  <1>7. GroupList(new)
    <2>1. \A k \in DOMAIN old : \E p : IsList(p) /\ new[k] \in {old[k], [old[k] EXCEPT !.proxies = p]}
      BY <1>2, <1>3, <1>5 DEF GroupList
    <2> QED
      BY <1>2, <1>6, <2>1, ChangedGroups
  <1> QED
    BY <1>1, <1>6, <1>7, WithGroups

\* so does adding a member (addMemberToDocument),
LEMMA AddMemberShape ==
    ASSUME NEW doc, StackShape(doc), NEW m, NEW new \in addMemberToDocument(doc, m)
    PROVE  StackShape(new)
  <1> DEFINE ups == doc.clash.upstreams
             u == MemberUpstream(m)
             longer == Append(ups, u)
             base == [doc EXCEPT !.clash.upstreams = longer]
  <1>1. new = syncMemberProxyAdd(base, LocalName[m])
    BY DEF addMemberToDocument
  <1>2. UpstreamShape(u)
    <2>1. <<m, "relay">> = [k \in 1..2 |-> <<m, "relay">>[k]]
      OBVIOUS
    <2>2. IsList(<<m, "relay">>)
      BY <2>1, FunctionIsList
    <2> QED
      BY <2>2 DEF MemberUpstream, UpstreamShape
  <1>3. UpstreamList(ups)
    BY ShapeLists
  <1> HIDE DEF u
  <1>4. UpstreamList(longer)
    <2>1. IsList(ups) /\ longer = Append(ups, u)
      BY <1>3 DEF UpstreamList
    <2> HIDE DEF longer
    <2>2. Longer(longer, ups, u)
      BY <2>1, LongerList
    <2>3. IsList(longer)
      BY <2>2 DEF Longer
    <2>4. ToSet(longer) = ToSet(ups) \cup {u}
      BY <2>2, LongerSet
    <2>5. \A e \in ToSet(ups) : UpstreamShape(e)
      BY <1>3 DEF UpstreamList, ToSet
    <2> QED
      BY <1>2, <2>3, <2>4, <2>5 DEF UpstreamList, ToSet
  <1> HIDE DEF longer
  <1>5. StackShape(base)
    BY <1>4, WithUpstreams
  <1> QED
    BY <1>1, <1>5, SyncAddShape

\* Keep of a list is a list of elements of it.
LEMMA RemoveMemberShape ==
    ASSUME NEW doc, StackShape(doc), NEW m, NEW new \in removeMemberFromDocument(doc, m)
    PROVE  StackShape(new)
  <1> DEFINE ups == doc.clash.upstreams
             Of(u) == u.type = "xray-socks5" /\ (u.name = LocalName[m] \/ u.ref = <<m, "relay">>)
             removed == {u.name : u \in {v \in ToSet(ups) : Of(v)}}
             rows == [k \in DOMAIN ups |-> IF ~Of(ups[k]) THEN <<ups[k]>> ELSE <<>>]
             kept == FlattenSeq(rows)
             base == [doc EXCEPT !.clash.upstreams = kept]
             old == doc.clash.groups
             Row(p) == [k \in DOMAIN p |-> IF p[k] \notin removed THEN <<p[k]>> ELSE <<>>]
             cells == [k \in DOMAIN old |-> [old[k] EXCEPT !.proxies = FlattenSeq(Row(@))]]
  <1>1. new = syncMemberProxyRemove(base, removed)
    BY DEF removeMemberFromDocument, Keep
  <1>2. UpstreamList(ups) /\ GroupList(old)
    BY ShapeLists
  <1>3. UpstreamList(kept)
    <2>1. /\ rows = [k \in DOMAIN ups |-> rows[k]]
          /\ \A k \in DOMAIN ups : rows[k] \in {<<>>, <<ups[k]>>}
      OBVIOUS
    <2> HIDE DEF rows
    <2>2. IsList(kept) /\ \A e \in ToSet(kept) : \E k \in DOMAIN ups : e = ups[k]
      BY <1>2, <2>1, KeepFacts DEF UpstreamList
    <2> HIDE DEF kept
    <2> QED
      BY <1>2, <2>2 DEF UpstreamList, ToSet
  <1> HIDE DEF kept
  <1>4. StackShape(base)
    BY <1>3, WithUpstreams
  <1>5. base.clash.groups = old
    BY DEF StackShape, ClashShape
  <1>6. new = [base EXCEPT !.clash.groups = cells \o <<>>]
    BY <1>1, <1>5 DEF syncMemberProxyRemove, Column, Keep
  <1> HIDE DEF base, removed
  <1>7. ASSUME NEW p, IsList(p)
        PROVE  IsList(FlattenSeq(Row(p)))
    <2> DEFINE row == Row(p)
    <2>1. row = [k \in DOMAIN p |-> row[k]] /\ \A k \in DOMAIN p : row[k] \in {<<>>, <<p[k]>>}
      OBVIOUS
    <2> HIDE DEF row
    <2>2. IsList(FlattenSeq(row))
      BY <1>7, <2>1, KeepFacts
    <2> QED
      BY <2>2 DEF row
  <1> HIDE DEF Row
  <1>8. /\ cells = [k \in DOMAIN old |-> cells[k]]
        /\ \A k \in DOMAIN old : cells[k] = [old[k] EXCEPT !.proxies = FlattenSeq(Row(@))]
    OBVIOUS
  <1> HIDE DEF cells
  <1>9. cells \o <<>> = cells /\ IsList(cells) /\ DOMAIN cells = DOMAIN old
    BY <1>2, <1>8, ColumnFacts DEF GroupList
  <1>10. GroupList(cells)
    <2>1. ASSUME NEW k \in DOMAIN old
          PROVE  \E p : IsList(p) /\ cells[k] \in {old[k], [old[k] EXCEPT !.proxies = p]}
      <3>1. IsList(FlattenSeq(Row(old[k].proxies)))
        BY <1>2, <1>7 DEF GroupList, GroupShape
      <3> QED
        BY <1>8, <3>1
    <2> QED
      BY <1>2, <1>9, <2>1, ChangedGroups
  <1> QED
    BY <1>4, <1>6, <1>9, <1>10, WithGroups

\* and replacing the members (applyAutoMembersToDocument).
LEMMA AutoMembersShape ==
    ASSUME NEW doc, StackShape(doc), NEW members, IsList(members),
           NEW new \in applyAutoMembersToDocument(doc, members)
    PROVE  StackShape(new)
  <1> DEFINE names == Column(members, LAMBDA m : LocalName[m])
             last == Last(Keep(doc.clash.groups, IsAutoGroup)).name
             ups == [k \in DOMAIN members |-> MemberUpstream(members[k])]
             base == [doc EXCEPT !.clash.upstreams = ups]
             old == doc.clash.groups
             One(g) == IF IsAutoGroup(g) THEN [g EXCEPT !.proxies = names]
                       ELSE IF g.type = "select"
                            THEN [g EXCEPT !.proxies = <<last>> \o names \o <<"DIRECT">>]
                            ELSE g
             cells == [k \in DOMAIN old |-> One(old[k])]
  <1>1. new = [doc EXCEPT !.clash.upstreams = ups \o <<>>, !.clash.groups = cells \o <<>>]
    BY DEF applyAutoMembersToDocument, Column
  <1>2. GroupList(old)
    BY ShapeLists
  <1>3. UpstreamList(ups) /\ ups \o <<>> = ups
    <2>1. /\ ups = [k \in DOMAIN members |-> ups[k]]
          /\ \A k \in DOMAIN members : ups[k] = MemberUpstream(members[k])
      OBVIOUS
    <2> HIDE DEF ups
    <2>2. ups \o <<>> = ups /\ IsList(ups) /\ DOMAIN ups = DOMAIN members
      BY <2>1, ColumnFacts
    <2>3. ASSUME NEW m PROVE UpstreamShape(MemberUpstream(m))
      <3>1. <<m, "relay">> = [k \in 1..2 |-> <<m, "relay">>[k]]
        OBVIOUS
      <3>2. IsList(<<m, "relay">>)
        BY <3>1, FunctionIsList
      <3> QED
        BY <3>2 DEF MemberUpstream, UpstreamShape
    <2> QED
      BY <2>1, <2>2, <2>3 DEF UpstreamList
  <1>4. IsList(names)
    <2> DEFINE row == [k \in DOMAIN members |-> LocalName[members[k]]]
    <2>1. names = row \o <<>>
      BY DEF Column
    <2>2. row = [k \in DOMAIN members |-> row[k]]
      OBVIOUS
    <2> HIDE DEF row
    <2> QED
      BY <2>1, <2>2, ColumnFacts
  <1> HIDE DEF names, ups, last
  <1>5. IsList(<<last>> \o names \o <<"DIRECT">>)
    BY <1>4, ListConcat, SingletonList
  <1>6. StackShape(base)
    BY <1>3, WithUpstreams
  <1>7. [base EXCEPT !.clash.groups = cells \o <<>>] = new
    BY <1>1, <1>3
  <1>8. \A g : One(g) \in {g, [g EXCEPT !.proxies = names], [g EXCEPT !.proxies = <<last>> \o names \o <<"DIRECT">>]}
    OBVIOUS
  <1> HIDE DEF base, One
  <1>9. cells = [k \in DOMAIN old |-> cells[k]] /\ \A k \in DOMAIN old : cells[k] = One(old[k])
    OBVIOUS
  <1> HIDE DEF cells
  <1>10. cells \o <<>> = cells /\ IsList(cells) /\ DOMAIN cells = DOMAIN old
    BY <1>2, <1>9, ColumnFacts DEF GroupList
  <1>11. \A k \in DOMAIN old : \E p : IsList(p) /\ cells[k] \in {old[k], [old[k] EXCEPT !.proxies = p]}
    BY <1>4, <1>5, <1>8, <1>9
  <1>12. GroupList(cells)
    BY <1>2, <1>10, <1>11, ChangedGroups
  <1> QED
    BY <1>6, <1>7, <1>10, <1>12, WithGroups

\* What stack add builds from a template is a document (buildStackDocument),
LEMMA BuiltShape ==
    ASSUME NEW template \in DOMAIN Templates, NEW n \in StackNames, NEW members \in MemberLists,
           NEW new \in buildStackDocument(template, n, members)
    PROVE  StackShape(new)
  <1> DEFINE doc == Templates[template][n]
             named == rewriteSelfRefsInNode([doc EXCEPT !.name = n], doc.name, n)
             on == doc.role # "auto"
  <1>1. StackShape(doc)
    BY TemplatesAssumption DEF StackNames
  <1>2. StackShape(named)
    BY <1>1, RenamedShape, SelfRefsShape
  <1>3. new \in applyAutoMembersToDocument(named, members) \/ new = [named EXCEPT !.enabled = on]
    BY DEF buildStackDocument
  <1> HIDE DEF named, on
  <1>4. CASE new \in applyAutoMembersToDocument(named, members)
    <2>1. IsList(members)
      BY MemberListsAssumption
    <2> QED
      BY <1>2, <1>4, <2>1, AutoMembersShape
  <1>5. CASE new = [named EXCEPT !.enabled = on]
    BY <1>2, <1>5, RenamedShape
  <1> QED
    BY <1>3, <1>4, <1>5

\* What add and clone write has the shape of a document.
LEMMA AddShape ==
    ASSUME NEW set, NEW template \in DOMAIN Templates, NEW n \in StackNames, NEW members \in MemberLists,
           NEW allocate, NEW doc \in AddCandidates(set, n, template, members, allocate)
    PROVE  StackShape(doc)
  <1> DEFINE built == UNION {applyConfigUserProfileToTemplateRefs(d, set.config.users)
                           : d \in buildStackDocument(template, n, members)}
  <1>1. \A d \in built : StackShape(d)
    BY BuiltShape, ProfilesShape
  <1>2. doc \in built \/ \E d \in built : doc \in allocateStackDocumentPorts(d, set)
    BY DEF AddCandidates
  <1> HIDE DEF built
  <1> QED
    BY <1>1, <1>2, AllocatedShape

\* and so is what stack clone makes of one.
LEMMA CloneShape ==
    ASSUME NEW set, NEW source, NEW n, NEW old, StackShape(old),
           NEW allocate, NEW doc \in CloneCandidates(set, old, source, n, allocate)
    PROVE  StackShape(doc)
  <1> DEFINE copy == rewriteSubscriptionRemarksInNode(
                    rewriteSelfRefsInNode([old EXCEPT !.name = n], source, n), source, n)
  <1>1. StackShape(copy)
    BY RenamedShape, SelfRefsShape, RemarksShape
  <1>2. doc = copy \/ doc \in allocateStackDocumentPorts(copy, set)
    BY DEF CloneCandidates
  <1> HIDE DEF copy
  <1> QED
    BY <1>1, <1>2, AllocatedShape

(***************************************************************************)
(* What an import has done.                                                *)
(***************************************************************************)

\* How far an import can have come.
Phases == {"none", "staged", "aside", "config", "stacks"}

\* The two records have the fields they start with.
Shape ==
    /\ restore = [phase |-> restore.phase, config |-> restore.config, stacks |-> restore.stacks]
    /\ stacks = [files |-> stacks.files, drafts |-> stacks.drafts, archives |-> stacks.archives]
    /\ restore.stacks = [files |-> restore.stacks.files, drafts |-> restore.stacks.drafts,
                         archives |-> restore.stacks.archives]

\* What an import has moved is in restore, what it has not moved is where it was, and the config
\* it has installed is that of the backup.
Moved ==
    /\ restore.phase \in Phases
    /\ restore.phase \in {"staged", "aside", "config"} => stacks = restore.stacks
    /\ restore.phase = "staged" => config = restore.config
    /\ restore.phase = "aside" => config = <<>>
    /\ restore.phase \in {"config", "stacks"} => \E b \in backup : config = b.config
    /\ restore.phase = "stacks" => stacks = EmptyDir

\* The last export is the only one.
OneBackup == \A b, c \in backup : b = c

\* An editor is open on a stack or on the config.
Targets == \A session \in editor : session.target \in StackNames \cup {ConfigFile}

\* The invariant of the refinement.
IInv == Shape /\ Moved /\ OneBackup /\ Targets /\ faults \in Nat

\* Changing the value at n changes nothing elsewhere.
LEMMA PutWithout ==
    ASSUME NEW fn, NEW n, NEW value
    PROVE  Store!Without(n, Put(fn, n, value)) = Store!Without(n, fn)
  <1>1. DOMAIN Put(fn, n, value) \ {n} = DOMAIN fn \ {n}
    BY DEF Put
  <1>2. \A m \in DOMAIN fn \ {n} : Put(fn, n, value)[m] = fn[m]
    BY DEF Put
  <1> QED
    BY <1>1, <1>2, Zenon DEF Store!Without

\* So does dropping one.
LEMMA DropWithout ==
    ASSUME NEW fn, NEW n
    PROVE  Store!Without(n, Drop(fn, n)) = Store!Without(n, fn)
  <1>1. DOMAIN Drop(fn, n) \ {n} = DOMAIN fn \ {n}
    BY DEF Drop
  <1>2. \A m \in DOMAIN fn \ {n} : Drop(fn, n)[m] = fn[m]
    BY DEF Drop
  <1> QED
    BY <1>1, <1>2, Zenon DEF Store!Without

(***************************************************************************)
(* A command that imports nothing does one of three things to what the     *)
(* store shows.                                                            *)
(***************************************************************************)

\* The directory has its fields.
StacksShape(dir) ==
    dir = [files |-> dir.files, drafts |-> dir.drafts, archives |-> dir.archives]

\* No import is under way, before or after.
Quiet ==
    /\ restore.phase = "none" /\ UNCHANGED <<restore, faults, crashes, backup>>
    /\ StacksShape(stacks') /\ Targets'

\* A command changes one file, the config, or nothing of the two.
FileStep ==
    /\ Quiet /\ UNCHANGED config
    /\ \E n \in StackNames : Store!Without(n, stacks'.files) = Store!Without(n, stacks.files)
ConfigStep == Quiet /\ config' # <<>> /\ stacks'.files = stacks.files
SameStep == Quiet /\ UNCHANGED config /\ stacks'.files = stacks.files

\* Writing a stack file.
LEMMA WriteStackIsFileStep ==
    ASSUME IInv, Command, NEW n \in StackNames, NEW doc, WriteStack(n, doc)
    PROVE  FileStep
  <1>1. stacks'.files = Put(stacks.files, n, doc) /\ StacksShape(stacks')
    BY DEF WriteStack, IInv, Shape, StacksShape
  <1>2. Store!Without(n, stacks'.files) = Store!Without(n, stacks.files)
    BY <1>1, PutWithout
  <1>3. Quiet /\ UNCHANGED config
    BY <1>1 DEF Command, Begin, WriteStack, Quiet, IInv, Targets
  <1> QED
    BY <1>2, <1>3 DEF FileStep

\* Opening an editor touches drafts only.
LEMMA OpenEditorIsSameStep ==
    ASSUME IInv, NEW target \in StackNames \cup {ConfigFile}, NEW new, NEW initial,
           OpenEditor(target, new, initial)
    PROVE  SameStep
  <1>1. stacks'.files = stacks.files /\ StacksShape(stacks')
    BY DEF OpenEditor, prepareDraft, IInv, Shape, StacksShape
  <1>2. Targets'
    BY DEF OpenEditor, Targets
  <1> QED
    BY <1>1, <1>2 DEF OpenEditor, Command, Begin, SameStep, Quiet

\* What the commands that load the set first do to the files.
LEMMA LoadingCommandSteps ==
    ASSUME IInv, LoadingCommand
    PROVE  FileStep \/ SameStep
  <1>1. PICK set \in loadConfigAndStacks, n \in StackNames :
        \/ RemoveStack(set, n)
        \/ \E m \in StackNames : AddMember(set, n, m) \/ RemoveMember(set, n, m)
        \/ \E template \in DOMAIN Templates, members \in MemberLists, allocate \in BOOLEAN :
              \/ AddStack(set, n, template, members, allocate)
              \/ EditNewStack(set, n, template, members, allocate)
        \/ \E source \in StackNames, allocate \in BOOLEAN :
              \/ CloneStack(set, source, n, allocate)
              \/ EditClonedStack(set, source, n, allocate)
    BY DEF LoadingCommand
  <1>2. CASE RemoveStack(set, n)
    <2>1. stacks'.files = Drop(stacks.files, n) /\ StacksShape(stacks')
      BY <1>2 DEF RemoveStack, IInv, Shape, StacksShape
    <2>2. Store!Without(n, stacks'.files) = Store!Without(n, stacks.files)
      BY <2>1, DropWithout
    <2>3. Quiet /\ UNCHANGED config
      BY <1>2, <2>1 DEF RemoveStack, Command, Begin, Quiet, IInv, Targets
    <2> QED
      BY <2>2, <2>3 DEF FileStep
  <1>3. CASE \E m \in StackNames : AddMember(set, n, m) \/ RemoveMember(set, n, m)
    <2>1. Command /\ \E doc : WriteStack(n, doc)
      BY <1>3 DEF AddMember, RemoveMember, Valid
    <2> QED
      BY <2>1, WriteStackIsFileStep
  <1>4. CASE \E template \in DOMAIN Templates, members \in MemberLists, allocate \in BOOLEAN :
              \/ AddStack(set, n, template, members, allocate)
              \/ EditNewStack(set, n, template, members, allocate)
    <2>1. \/ Command /\ \E doc : WriteStack(n, doc)
          \/ \E doc : OpenEditor(n, TRUE, doc)
      BY <1>4 DEF AddStack, EditNewStack, Valid
    <2> QED
      BY <2>1, WriteStackIsFileStep, OpenEditorIsSameStep
  <1>5. CASE \E source \in StackNames, allocate \in BOOLEAN :
              \/ CloneStack(set, source, n, allocate)
              \/ EditClonedStack(set, source, n, allocate)
    <2>1. \/ Command /\ \E doc : WriteStack(n, doc)
          \/ \E doc : OpenEditor(n, TRUE, doc)
      BY <1>5 DEF CloneStack, EditClonedStack, Valid
    <2> QED
      BY <2>1, WriteStackIsFileStep, OpenEditorIsSameStep
  <1> QED
    BY <1>1, <1>2, <1>3, <1>4, <1>5

\* The return of the editor commits to one file or to none.
LEMMA CloseEditorSteps ==
    ASSUME IInv, NEW exit \in {0, 1}, CloseEditor(exit)
    PROVE  FileStep \/ ConfigStep \/ SameStep
  <1>1. restore.phase = "none" /\ UNCHANGED <<restore, faults, crashes, backup>> /\ Targets'
    BY DEF CloseEditor, counters, Targets
  <1>2. PICK session \in editor :
            \/ \E content : EditAndCommit(session, content, exit)
            \/ UNCHANGED <<config, configDraft, stacks>>
    BY DEF CloseEditor
  <1>3. session.target \in StackNames \cup {ConfigFile}
    BY DEF IInv, Targets
  <1>4. StacksShape(stacks)
    BY DEF IInv, Shape, StacksShape
  <1>5. CASE UNCHANGED <<config, configDraft, stacks>>
    BY <1>1, <1>4, <1>5 DEF SameStep, Quiet, StacksShape
  <1>6. ASSUME NEW content, EditAndCommit(session, content, exit)
        PROVE  FileStep \/ ConfigStep \/ SameStep
    <2>1. CASE session.target = ConfigFile
      BY <1>1, <1>4, <1>6, <2>1 DEF EditAndCommit, SameStep, ConfigStep, Quiet, StacksShape
    <2>2. CASE session.target # ConfigFile
      <3> DEFINE n == session.target
      <3>1. UNCHANGED config /\ StacksShape(stacks')
        BY <1>4, <1>6, <2>2 DEF EditAndCommit, StacksShape
      <3>2. stacks'.files = stacks.files \/ stacks'.files = Put(stacks.files, n, content)
        BY <1>4, <1>6, <2>2 DEF EditAndCommit, StacksShape
      <3>3. Store!Without(n, stacks'.files) = Store!Without(n, stacks.files)
        BY <3>2, PutWithout
      <3> QED
        BY <1>1, <1>3, <2>2, <3>1, <3>3 DEF FileStep, Quiet
    <2> QED
      BY <2>1, <2>2
  <1> QED
    BY <1>2, <1>5, <1>6

(***************************************************************************)
(* The steps of an import.                                                 *)
(***************************************************************************)

\* The four renames of an import.
ImportMove == MoveConfigAside \/ InstallConfig \/ MoveStacksAside \/ InstallStacks

\* One step of the specification.
LEMMA StepKinds ==
    ASSUME IInv, Next
    PROVE  \/ FileStep \/ ConfigStep \/ SameStep
           \/ Export \/ (\E force \in BOOLEAN : ImportBegin(force)) \/ ImportMove \/ Crash
  <1>1. CASE LoadingCommand
    BY <1>1, LoadingCommandSteps
  <1>2. CASE EditConfig
    BY <1>2, OpenEditorIsSameStep DEF EditConfig
  <1>3. CASE \E n \in StackNames : EditStack(n)
    BY <1>3, OpenEditorIsSameStep DEF EditStack
  <1>4. CASE \E exit \in {0, 1} : CloseEditor(exit)
    BY <1>4, CloseEditorSteps
  <1>5. ASSUME NEW force \in BOOLEAN, SetupLocal(force)
        PROVE  ConfigStep
    <2>1. config' # <<>>
      BY <1>5 DEF SetupLocal
    <2>2. Quiet
      BY <1>5 DEF SetupLocal, Command, Begin, Quiet, IInv, Shape, StacksShape, Targets
    <2> QED
      BY <1>5, <2>1, <2>2 DEF SetupLocal, ConfigStep
  <1> QED
    BY <1>1, <1>2, <1>3, <1>4, <1>5 DEF Next, ImportMove

\* A move ends the import if renames fail.
Failed(k) == k \in 1..MaxFaults /\ faults' = faults + k /\ restore' = NoRestore
\* What no rename touches.
MoveFrame == UNCHANGED <<configDraft, editor, backup, crashes>>

\* The config is moved aside, or the rename fails and the import ends.
LEMMA MoveConfigAsideCases ==
    ASSUME MoveConfigAside
    PROVE  /\ MoveFrame /\ restore.phase = "staged" /\ UNCHANGED stacks
           /\ \/ /\ UNCHANGED faults /\ config' = <<>>
                 /\ restore' = [restore EXCEPT !.phase = "aside"]
              \/ Failed(1) /\ UNCHANGED config
  BY DEF MoveConfigAside, ImportStep, Fail, Failed, MoveFrame

\* The config of the backup is installed, or the old one is put back, unless that fails too;
LEMMA InstallConfigCases ==
    ASSUME InstallConfig
    PROVE  /\ MoveFrame /\ restore.phase = "aside" /\ UNCHANGED stacks
           /\ \/ /\ UNCHANGED faults /\ \E b \in backup : config' = b.config
                 /\ restore' = [restore EXCEPT !.phase = "config"]
              \/ Failed(1) /\ config' = restore.config
              \/ Failed(2) /\ config' = <<>>
  BY DEF InstallConfig, ImportStep, Fail, Failed, MoveFrame, rollbackConfig

\* the stacks are moved aside, or the same;
LEMMA MoveStacksAsideCases ==
    ASSUME MoveStacksAside
    PROVE  /\ MoveFrame /\ restore.phase = "config"
           /\ \/ /\ UNCHANGED <<faults, config>> /\ stacks' = EmptyDir
                 /\ restore' = [restore EXCEPT !.phase = "stacks"]
              \/ Failed(1) /\ config' = restore.config /\ UNCHANGED stacks
              \/ Failed(2) /\ config' = <<>> /\ UNCHANGED stacks
  BY DEF MoveStacksAside, ImportStep, Fail, Failed, MoveFrame, rollbackConfig

\* the stacks of the backup are installed, or both are put back, as far as that succeeds.
LEMMA InstallStacksCases ==
    ASSUME InstallStacks
    PROVE  /\ MoveFrame /\ restore.phase = "stacks"
           /\ \/ /\ UNCHANGED <<faults, config>> /\ restore' = NoRestore
                 /\ \E b \in backup : stacks' = [EmptyDir EXCEPT !.files = b.files]
              \/ Failed(1) /\ config' = restore.config /\ stacks' = restore.stacks
              \/ /\ \E k \in Nat : k > 1 /\ Failed(k)
                 /\ config' \in {restore.config, <<>>} /\ stacks' \in {restore.stacks, EmptyDir}
  <1>1. \/ /\ MoveFrame /\ restore.phase = "stacks"
           /\ UNCHANGED <<faults, config>> /\ restore' = NoRestore
           /\ \E b \in backup : stacks' = [EmptyDir EXCEPT !.files = b.files]
        \/ /\ MoveFrame /\ restore.phase = "stacks"
           /\ \E k \in 1..MaxFaults, lost \in SUBSET {"config", "stacks"} :
                /\ Failed(k) /\ k = 1 + Cardinality(lost)
                /\ stacks' = IF "stacks" \in lost THEN EmptyDir ELSE restore.stacks
                /\ config' = IF "config" \notin lost THEN restore.config ELSE <<>>
    BY DEF InstallStacks, ImportStep, Fail, Failed, MoveFrame, rollbackConfig
  <1>2. ASSUME NEW k \in 1..MaxFaults, NEW lost \in SUBSET {"config", "stacks"}, Failed(k),
               k = 1 + Cardinality(lost),
               stacks' = IF "stacks" \in lost THEN EmptyDir ELSE restore.stacks,
               config' = IF "config" \notin lost THEN restore.config ELSE <<>>
        PROVE  \/ Failed(1) /\ config' = restore.config /\ stacks' = restore.stacks
               \/ /\ \E i \in Nat : i > 1 /\ Failed(i)
                  /\ config' \in {restore.config, <<>>} /\ stacks' \in {restore.stacks, EmptyDir}
    <2>1. config' \in {restore.config, <<>>} /\ stacks' \in {restore.stacks, EmptyDir}
      BY <1>2
    <2>2. k \in Nat /\ k > 0
      BY BoundsAssumption
    <2>3. CASE k = 1
      <3>1. IsFiniteSet({"config"} \cup {"stacks"})
        BY FS_Singleton, FS_AddElement
      <3>2. IsFiniteSet(lost)
        <4>1. lost \in SUBSET ({"config"} \cup {"stacks"})
          BY Zenon
        <4> QED
          BY <3>1, <4>1, FS_Subset
      <3>3. Cardinality(lost) = 0
        BY <1>2, <2>3, <3>2, FS_CardinalityType
      <3>4. lost = {}
        BY <3>2, <3>3, FS_EmptySet
      <3> QED
        BY <1>2, <2>3, <3>4
    <2>4. CASE k # 1
      BY <1>2, <2>1, <2>2, <2>4
    <2> QED
      BY <2>3, <2>4
  <1> QED
    BY <1>1, <1>2

(***************************************************************************)
(* The invariant.                                                          *)
(***************************************************************************)

\* The invariant holds at the start,
LEMMA InitIInv == Init => IInv
  BY DEF Init, IInv, Shape, Moved, OneBackup, Targets, NoRestore, EmptyDir, Phases

\* The invariant with no import under way.
LEMMA AtRest ==
    ASSUME restore.phase = "none",
           restore = [phase |-> restore.phase, config |-> restore.config,
                      stacks |-> restore.stacks],
           StacksShape(restore.stacks), StacksShape(stacks), Targets, OneBackup, faults \in Nat
    PROVE  IInv
  BY DEF IInv, Shape, StacksShape, Moved, Phases

\* every step keeps it,
LEMMA NextIInv ==
    ASSUME IInv, Next
    PROVE  IInv'
  <1> USE DEF IInv
  <1>0. /\ StacksShape(NoRestore.stacks) /\ NoRestore.phase = "none"
        /\ NoRestore = [phase |-> NoRestore.phase, config |-> NoRestore.config,
                        stacks |-> NoRestore.stacks]
        /\ StacksShape(stacks) /\ StacksShape(restore.stacks) /\ StacksShape(EmptyDir)
    BY DEF StacksShape, Shape, NoRestore, EmptyDir
  <1>1. CASE Quiet
    BY <1>1 DEF Quiet, StacksShape, Shape, Moved, OneBackup, Targets, Phases
  <1>2. CASE Export
    BY <1>2 DEF Export, Command, Begin, Shape, Moved, OneBackup, Targets, Phases
  <1>3. CASE \E force \in BOOLEAN : ImportBegin(force)
    BY <1>3 DEF ImportBegin, Begin, Shape, Moved, OneBackup, Targets, Phases
  <1>4. CASE Crash
    BY <1>0, <1>4 DEF Crash, StacksShape, Shape, Moved, OneBackup, Targets, Phases
  <1>5. ASSUME MoveFrame, NEW k \in Nat, Failed(k), StacksShape(stacks')
        PROVE  IInv'
    BY <1>0, <1>5 DEF MoveFrame, Failed, StacksShape, Shape, Moved, OneBackup, Targets, Phases
  <1>6. MaxFaults \in Nat
    BY BoundsAssumption
  <1>7. CASE MoveConfigAside
    <2>1. CASE Failed(1)
      BY <1>0, <1>5, <1>7, <2>1, MoveConfigAsideCases DEF StacksShape
    <2>2. CASE ~Failed(1)
      BY <1>7, <2>2, MoveConfigAsideCases
         DEF MoveFrame, Shape, Moved, OneBackup, Targets, Phases
    <2> QED
      BY <2>1, <2>2
  <1>8. CASE InstallConfig
    <2>1. CASE Failed(1) \/ Failed(2)
      BY <1>0, <1>5, <1>8, <2>1, InstallConfigCases DEF StacksShape
    <2>2. CASE ~(Failed(1) \/ Failed(2))
      BY <1>8, <2>2, InstallConfigCases DEF MoveFrame, Shape, Moved, OneBackup, Targets, Phases
    <2> QED
      BY <2>1, <2>2
  <1>9. CASE MoveStacksAside
    <2>1. CASE Failed(1) \/ Failed(2)
      <3>1. UNCHANGED stacks \/ (stacks' = EmptyDir /\ UNCHANGED faults)
        BY <1>9, MoveStacksAsideCases
      <3>2. StacksShape(stacks')
        BY <1>0, <3>1 DEF StacksShape
      <3> QED
        BY <1>5, <1>9, <2>1, <3>2, MoveStacksAsideCases
    <2>2. CASE ~(Failed(1) \/ Failed(2))
      BY <1>0, <1>9, <2>2, MoveStacksAsideCases
         DEF MoveFrame, StacksShape, Shape, Moved, OneBackup, Targets, Phases
    <2> QED
      BY <2>1, <2>2
  <1>10. CASE InstallStacks
    <2>1. MoveFrame /\ restore' = NoRestore /\ faults' \in Nat
      BY <1>10, InstallStacksCases DEF Failed
    <2>2. StacksShape(stacks')
      BY <1>0, <1>10, InstallStacksCases DEF StacksShape, EmptyDir
    <2> QED
      BY <1>0, <2>1, <2>2 DEF MoveFrame, StacksShape, Shape, Moved, OneBackup, Targets, Phases
  <1> QED
    BY <1>1, <1>2, <1>3, <1>4, <1>7, <1>8, <1>9, <1>10, StepKinds
       DEF FileStep, ConfigStep, SameStep, ImportMove

\* and so it always holds.
THEOREM Invariance == Spec => []IInv
  <1>1. IInv /\ UNCHANGED vars => IInv'
    BY DEF vars, counters, IInv, Shape, Moved, OneBackup, Targets
  <1>2. IInv /\ [Next]_vars => IInv'
    BY <1>1, NextIInv
  <1> QED
    BY <1>2, InitIInv, PTL DEF Spec

(***************************************************************************)
(* The refinement.                                                         *)
(***************************************************************************)

\* A start of the base directory is one of the store.
LEMMA InitRefines == Init => Store!Init
  BY DEF Init, Store!Init

\* Every step is a step of the atomic store or leaves it as it is.
LEMMA NextRefines ==
    ASSUME IInv, IInv', Next
    PROVE  [Store!Next]_Store!vars
  <1> USE DEF seenConfig, seenFiles, Store!vars, Store!mishaps, Store!Next
  <1>1. CASE FileStep
    BY <1>1 DEF FileStep, Quiet, Store!ChangeStack
  <1>2. CASE ConfigStep
    BY <1>2 DEF ConfigStep, Quiet, Store!WriteConfig
  <1>3. CASE SameStep
    BY <1>3 DEF SameStep, Quiet
  <1>4. CASE Export
    <2>1. config # <<>>
      BY <1>4 DEF Export, LoadConfig, ToSet
    <2> QED
      BY <1>4, <2>1 DEF Export, Command, Begin, Store!Export
  <1>5. CASE \E force \in BOOLEAN : ImportBegin(force)
    BY <1>5 DEF ImportBegin, Begin
  <1>6. CASE Crash
    <2>1. config \in {restore.config, <<>>} \cup {b.config : b \in backup}
      BY <1>6 DEF Crash, IInv, Moved, Phases
    <2>2. stacks.files \in {restore.stacks.files, <<>>}
      BY <1>6 DEF Crash, IInv, Moved, Phases, EmptyDir
    <2> QED
      BY <1>6, <2>1, <2>2 DEF Crash, NoRestore, Store!Tear
  <1>7. CASE MoveConfigAside
    <2>1. CASE Failed(1)
      BY <1>7, <2>1, MoveConfigAsideCases
         DEF Failed, MoveFrame, NoRestore, Store!RestoreFails, IInv, Moved
    <2>2. CASE ~Failed(1)
      BY <1>7, <2>2, MoveConfigAsideCases DEF MoveFrame, IInv, Shape
    <2> QED
      BY <2>1, <2>2
  <1>8. CASE InstallConfig
    <2>1. CASE Failed(1)
      BY <1>8, <2>1, InstallConfigCases
         DEF Failed, MoveFrame, NoRestore, Store!RestoreFails, IInv, Moved
    <2>2. CASE Failed(2)
      BY <1>8, <2>2, InstallConfigCases
         DEF Failed, MoveFrame, NoRestore, Store!Tear, Store!RestoreFails, IInv, Moved
    <2>3. CASE ~(Failed(1) \/ Failed(2))
      BY <1>8, <2>3, InstallConfigCases DEF MoveFrame, IInv, Shape
    <2> QED
      BY <2>1, <2>2, <2>3
  <1>9. CASE MoveStacksAside
    <2>1. CASE Failed(1)
      BY <1>9, <2>1, MoveStacksAsideCases
         DEF Failed, MoveFrame, NoRestore, Store!RestoreFails, IInv, Moved
    <2>2. CASE Failed(2)
      BY <1>9, <2>2, MoveStacksAsideCases
         DEF Failed, MoveFrame, NoRestore, Store!Tear, Store!RestoreFails, IInv, Moved
    <2>3. CASE ~(Failed(1) \/ Failed(2))
      BY <1>9, <2>3, MoveStacksAsideCases DEF MoveFrame, IInv, Shape
    <2> QED
      BY <2>1, <2>2, <2>3
  <1>10. CASE InstallStacks
    <2>1. MoveFrame /\ restore.phase = "stacks"
      BY <1>10, InstallStacksCases
    <2>2. CASE /\ UNCHANGED <<faults, config>> /\ restore' = NoRestore
               /\ \E b \in backup : stacks' = [EmptyDir EXCEPT !.files = b.files]
      <3>1. PICK b \in backup : stacks' = [EmptyDir EXCEPT !.files = b.files]
        BY <2>2
      <3>2. config = b.config
        BY <2>1 DEF IInv, Moved, OneBackup
      <3> QED
        BY <2>1, <2>2, <3>1, <3>2 DEF MoveFrame, NoRestore, EmptyDir, Store!Restore
    <2>3. CASE Failed(1) /\ config' = restore.config /\ stacks' = restore.stacks
      BY <2>1, <2>3 DEF Failed, MoveFrame, NoRestore, Store!RestoreFails
    <2>4. CASE /\ \E k \in Nat : k > 1 /\ Failed(k)
               /\ config' \in {restore.config, <<>>} /\ stacks' \in {restore.stacks, EmptyDir}
      BY <2>1, <2>4 DEF Failed, MoveFrame, NoRestore, EmptyDir, Store!Tear, IInv
    <2> QED
      BY <1>10, <2>2, <2>3, <2>4, InstallStacksCases
  <1> QED
    BY <1>1, <1>2, <1>3, <1>4, <1>5, <1>6, <1>7, <1>8, <1>9, <1>10, StepKinds DEF ImportMove

\* Whatever the commands, the bounds and the documents are, the base directory implements the
\* atomic store: only a restore changes config and stacks together, to what one export saw, and
\* one failing rename undoes it; a crash or a second failure is the only way to lose either.
THEOREM StoreRefinement == Spec => StoreIsAtomic
  <1>1. IInv /\ IInv' /\ [Next]_vars => [Store!Next]_Store!vars
    <2>1. CASE Next
      BY <2>1, NextRefines
    <2>2. CASE UNCHANGED vars
      BY <2>2 DEF vars, counters, Store!vars, Store!mishaps, seenConfig, seenFiles
    <2> QED
      BY <2>1, <2>2
  <1> QED
    BY <1>1, InitRefines, Invariance, PTL DEF Spec, StoreIsAtomic, Store!Spec

(***************************************************************************)
(* Drafts.                                                                 *)
(***************************************************************************)

\* No draft is lost or changed but by an edit of its own file.
DraftsKept ==
    /\ \A n \in DOMAIN stacks.drafts : StackDraftKept(n)
    /\ configDraft # <<>> => ConfigDraftKept

\* A step that touches no draft keeps them,
LEMMA NoDraftTouched ==
    ASSUME stacks'.drafts = stacks.drafts, configDraft' = configDraft
    PROVE  DraftsKept
  BY DEF DraftsKept, StackDraftKept, ConfigDraftKept

\* as writing a stack file does,
LEMMA WriteStackKeepsDrafts ==
    ASSUME IInv, NEW n, NEW doc, WriteStack(n, doc)
    PROVE  DraftsKept
  BY NoDraftTouched DEF WriteStack, IInv, Shape

\* and opening an editor, which makes one,
LEMMA OpenEditorKeepsDrafts ==
    ASSUME IInv, NEW target, NEW new, NEW initial, OpenEditor(target, new, initial)
    PROVE  DraftsKept
  <1>1. CASE target = ConfigFile
    BY <1>1 DEF OpenEditor, prepareDraft, DraftsKept, StackDraftKept, ConfigDraftKept
  <1>2. CASE target # ConfigFile
    <2>1. stacks'.drafts = PutNew(stacks.drafts, target, initial) /\ configDraft' = configDraft
      BY <1>2 DEF OpenEditor, prepareDraft, IInv, Shape
    <2>2. \A n \in DOMAIN stacks.drafts :
              n \in DOMAIN stacks'.drafts /\ stacks'.drafts[n] = stacks.drafts[n]
      BY <2>1 DEF PutNew
    <2> QED
      BY <2>1, <2>2 DEF DraftsKept, StackDraftKept, ConfigDraftKept
  <1> QED
    BY <1>1, <1>2

\* The editor returns: a commit puts what was saved into the file, a failure keeps the draft.
LEMMA CloseEditorKeepsDrafts ==
    ASSUME IInv, NEW exit \in {0, 1}, CloseEditor(exit)
    PROVE  DraftsKept
  <1>1. PICK session \in editor :
            \/ \E content \in (IF session.target = ConfigFile THEN ConfigWrites
                               ELSE Writes[session.target]) \cup DraftOf(session.target) :
                   EditAndCommit(session, content, exit)
            \/ UNCHANGED <<config, configDraft, stacks>>
    BY DEF CloseEditor
  <1>2. Closing(session.target)
    BY DEF CloseEditor, Closing
  <1>3. CASE UNCHANGED <<config, configDraft, stacks>>
    BY <1>3, NoDraftTouched
  <1>4. ASSUME session.target = ConfigFile,
               NEW content \in ConfigWrites \cup DraftOf(ConfigFile),
               EditAndCommit(session, content, exit)
        PROVE  DraftsKept
    <2>1. content \in ConfigWrites \cup ToSet(configDraft)
      BY <1>4 DEF DraftOf
    <2>2. stacks' = stacks /\ (config' = <<content>> \/ configDraft' = <<content>>)
      BY <1>4 DEF EditAndCommit
    <2>3. ConfigDraftKept
      BY <1>2, <1>4, <2>1, <2>2 DEF ConfigDraftKept
    <2> QED
      BY <2>2, <2>3 DEF DraftsKept, StackDraftKept
  <1>5. ASSUME session.target # ConfigFile,
               NEW content \in Writes[session.target] \cup DraftOf(session.target),
               EditAndCommit(session, content, exit)
        PROVE  DraftsKept
    <2> DEFINE n == session.target
    <2>1. configDraft' = configDraft
      BY <1>5 DEF EditAndCommit
    <2>2. \/ /\ stacks'.files = Put(stacks.files, n, content)
             /\ stacks'.drafts = Drop(stacks.drafts, n)
          \/ stacks'.drafts = Put(stacks.drafts, n, content)
      BY <1>5 DEF EditAndCommit, IInv, Shape
    <2>3. ASSUME NEW m \in DOMAIN stacks.drafts, m # n
          PROVE  StackDraftKept(m)
      BY <2>2, <2>3 DEF StackDraftKept, Put, Drop
    <2>4. ASSUME n \in DOMAIN stacks.drafts
          PROVE  StackDraftKept(n)
      <3>1. content \in Writes[n] \cup {stacks.drafts[n]}
        BY <1>5 DEF DraftOf
      <3>2. CASE stacks'.drafts = Put(stacks.drafts, n, content)
        BY <1>2, <3>2 DEF StackDraftKept, Put
      <3>3. CASE stacks'.files = Put(stacks.files, n, content)
        <4>1. n \in DOMAIN stacks'.files /\ stacks'.files[n] = content
          BY <3>3 DEF Put
        <4> QED
          BY <1>2, <3>1, <4>1 DEF StackDraftKept
      <3> QED
        BY <2>2, <3>2, <3>3
    <2> QED
      BY <2>1, <2>3, <2>4 DEF DraftsKept, ConfigDraftKept
  <1> QED
    BY <1>1, <1>3, <1>4, <1>5

\* and every command that loads the set first,
LEMMA LoadingCommandKeepsDrafts ==
    ASSUME IInv, LoadingCommand
    PROVE  DraftsKept
  <1>1. \/ \E set, n : RemoveStack(set, n)
        \/ \E n, doc : WriteStack(n, doc)
        \/ \E n, doc : OpenEditor(n, TRUE, doc)
    <2>1. \A set, n, m : AddMember(set, n, m) \/ RemoveMember(set, n, m) => \E doc : WriteStack(n, doc)
      BY DEF AddMember, RemoveMember
    <2>2. \A set, n, template, members, allocate :
             /\ AddStack(set, n, template, members, allocate) => \E doc : WriteStack(n, doc)
             /\ EditNewStack(set, n, template, members, allocate) => \E doc : OpenEditor(n, TRUE, doc)
      BY DEF AddStack, EditNewStack
    <2>3. \A set, source, n, allocate :
             /\ CloneStack(set, source, n, allocate) => \E doc : WriteStack(n, doc)
             /\ EditClonedStack(set, source, n, allocate) => \E doc : OpenEditor(n, TRUE, doc)
      BY DEF CloneStack, EditClonedStack
    <2> QED
      BY <2>1, <2>2, <2>3 DEF LoadingCommand
  <1>2. ASSUME NEW set, NEW n, RemoveStack(set, n)
        PROVE  DraftsKept
    BY <1>2, NoDraftTouched DEF RemoveStack, IInv, Shape
  <1> QED
    BY <1>1, <1>2, WriteStackKeepsDrafts, OpenEditorKeepsDrafts

\* and every rename of an import.
LEMMA ImportMoveKeepsDrafts ==
    ASSUME IInv, ImportMove
    PROVE  DraftsKept
  <1>1. configDraft' = configDraft
    BY MoveConfigAsideCases, InstallConfigCases, MoveStacksAsideCases, InstallStacksCases
       DEF ImportMove, MoveFrame
  <1>2. CASE stacks' = stacks
    BY <1>1, <1>2, NoDraftTouched
  <1>3. CASE restore.phase = "config" /\ restore'.phase = "stacks"
    BY <1>1, <1>3 DEF DraftsKept, StackDraftKept, ConfigDraftKept
  <1>4. CASE InstallStacks
    <2>1. DOMAIN stacks.drafts = {}
      BY <1>4, InstallStacksCases DEF IInv, Moved, EmptyDir
    <2> QED
      BY <1>1, <2>1 DEF DraftsKept, ConfigDraftKept
  <1>5. MoveConfigAside \/ InstallConfig \/ MoveStacksAside =>
            stacks' = stacks \/ (restore.phase = "config" /\ restore'.phase = "stacks")
    BY MoveConfigAsideCases, InstallConfigCases, MoveStacksAsideCases DEF IInv, Shape
  <1> QED
    BY <1>2, <1>3, <1>4, <1>5 DEF ImportMove

\* Whatever operators save and in whatever order they open and leave editors, what a draft holds
\* is not lost by a command: it stays until it is the file, or until an import replaces the
\* directory it lies in.
THEOREM DraftsNotLost == Spec => DraftsAreKept
  <1>1. IInv /\ [Next]_vars => [DraftsKept]_vars
    <2> SUFFICES ASSUME IInv, Next
                 PROVE  DraftsKept
      OBVIOUS
    <2>1. CASE \E force \in BOOLEAN : SetupLocal(force) \/ ImportBegin(force)
      BY <2>1, NoDraftTouched DEF SetupLocal, ImportBegin
    <2>2. CASE Export \/ Crash
      BY <2>2, NoDraftTouched DEF Export, Crash
    <2>3. CASE EditConfig \/ \E n \in StackNames : EditStack(n)
      BY <2>3, OpenEditorKeepsDrafts DEF EditConfig, EditStack
    <2> QED
      BY <2>1, <2>2, <2>3, LoadingCommandKeepsDrafts, CloseEditorKeepsDrafts,
         ImportMoveKeepsDrafts DEF Next, ImportMove
  <1> QED
    BY <1>1, Invariance, PTL DEF Spec, DraftsAreKept, DraftsKept

(***************************************************************************)
(* The files keep their shape.                                             *)
(***************************************************************************)

\* Files carry the name of their document.
NamedFiles(files) == FilesShape(files) /\ \A n \in DOMAIN files : files[n].name = n

\* What lies in the directory, in the drafts, in the backup and aside.
DirShape(dir) ==
    /\ NamedFiles(dir.files) /\ FilesShape(dir.drafts)
    /\ DOMAIN dir.archives \subseteq StackNames
\* A config file: there, or not.
ListOfOne(x) == IsList(x) /\ Len(x) <= 1 /\ \A c \in ToSet(x) : ConfigShape(c)
\* Everything the commands hold is made of documents; TypeOK follows.
Documents ==
    /\ ListOfOne(config) /\ ListOfOne(configDraft) /\ ListOfOne(restore.config)
    /\ DirShape(stacks) /\ DirShape(restore.stacks)
    /\ \A b \in backup : ListOfOne(b.config) /\ NamedFiles(b.files)
    /\ AtMostOne(editor)
    /\ restore.phase = "none" => restore = NoRestore

\* Lists of one element or none.
LEMMA ListsOfOne ==
    /\ ListOfOne(<<>>)
    /\ \A c : ConfigShape(c) => ListOfOne(<<c>>)
  <1>1. <<>> \in Seq({}) /\ ToSet(<<>>) = {} /\ Len(<<>>) = 0
    BY DEF ToSet
  <1> QED
    BY <1>1, SingletonList DEF ListOfOne, IsList

\* A list of one element has at most that element.
LEMMA ElementOfOne ==
    ASSUME NEW x, ListOfOne(x), NEW c \in ToSet(x)
    PROVE  x = <<c>>
  <1>1. Len(x) \in Nat /\ DOMAIN x = 1..Len(x) /\ x = [k \in 1..Len(x) |-> x[k]]
    BY ListShape DEF ListOfOne
  <1>2. PICK k \in DOMAIN x : x[k] = c
    BY DEF ToSet
  <1>3. Len(x) = 1 /\ k = 1
    BY <1>1, <1>2 DEF ListOfOne
  <1>4. x = [m \in 1..1 |-> x[m]] /\ x[1] = c
    BY <1>1, <1>2, <1>3
  <1> QED
    BY <1>4

\* An empty directory.
LEMMA EmptyShape == DirShape(EmptyDir) /\ ListOfOne(NoRestore.config) /\ DirShape(NoRestore.stacks)
  <1>1. DOMAIN <<>> = {}
    OBVIOUS
  <1> QED
    BY <1>1, ListsOfOne DEF DirShape, NamedFiles, FilesShape, EmptyDir, NoRestore

\* A file, a draft or an archive of a stack changes.
LEMMA NamedPut ==
    ASSUME NEW files, NamedFiles(files), NEW n \in StackNames, NEW doc, StackShape(doc), doc.name = n
    PROVE  NamedFiles(Put(files, n, doc))
  <1>1. FilesShape(Put(files, n, doc))
    BY PutKeepsShape DEF NamedFiles, StackNames
  <1>2. \A m \in DOMAIN Put(files, n, doc) : Put(files, n, doc)[m].name = m
    BY DEF Put, NamedFiles
  <1> QED
    BY <1>1, <1>2 DEF NamedFiles

\* The same for files that one is taken from.
LEMMA NamedDrop ==
    ASSUME NEW files, NamedFiles(files), NEW n
    PROVE  NamedFiles(Drop(files, n))
  <1>1. FilesShape(Drop(files, n))
    BY DropKeepsShape DEF NamedFiles
  <1>2. \A m \in DOMAIN Drop(files, n) : Drop(files, n)[m].name = m
    BY DEF Drop, NamedFiles
  <1> QED
    BY <1>1, <1>2 DEF NamedFiles

\* What surrounds a command that imports nothing.
LEMMA CommandFrame ==
    ASSUME Documents, UNCHANGED <<restore, backup>>,
           ListOfOne(config'), ListOfOne(configDraft'), DirShape(stacks'), AtMostOne(editor')
    PROVE  Documents'
  BY DEF Documents

\* Writing a stack file.
LEMMA WriteStackDocuments ==
    ASSUME IInv, Documents, Command, NEW n \in StackNames, NEW doc, StackShape(doc), doc.name = n,
           WriteStack(n, doc)
    PROVE  Documents'
  <1>1. /\ stacks'.files = Put(stacks.files, n, doc)
        /\ stacks'.drafts = stacks.drafts /\ stacks'.archives = stacks.archives
    BY DEF WriteStack, IInv, Shape
  <1>2. DirShape(stacks')
    BY <1>1, NamedPut DEF DirShape, Documents
  <1> QED
    BY <1>2, CommandFrame DEF WriteStack, Command, Begin, Documents

\* Opening an editor.
LEMMA OpenEditorDocuments ==
    ASSUME IInv, Documents, NEW target \in StackNames \cup {ConfigFile}, NEW new, NEW initial,
           IF target = ConfigFile THEN ConfigShape(initial) ELSE StackShape(initial),
           OpenEditor(target, new, initial)
    PROVE  Documents'
  <1>1. AtMostOne(editor')
    BY DEF OpenEditor, AtMostOne
  <1>2. ListOfOne(configDraft')
    BY ListsOfOne DEF OpenEditor, prepareDraft, Documents
  <1>3. DirShape(stacks')
    <2>1. CASE target = ConfigFile
      BY <2>1 DEF OpenEditor, prepareDraft, Documents
    <2>2. CASE target # ConfigFile
      <3>1. /\ stacks'.drafts = PutNew(stacks.drafts, target, initial)
            /\ stacks'.files = stacks.files /\ stacks'.archives = stacks.archives
        BY <2>2 DEF OpenEditor, prepareDraft, IInv, Shape
      <3>2. target \in ToSet(StackOrder)
        BY <2>2 DEF StackNames
      <3>3. FilesShape(PutNew(stacks.drafts, target, initial))
        BY <2>2, <3>2 DEF PutNew, FilesShape, DirShape, Documents
      <3> QED
        BY <3>1, <3>3 DEF DirShape, Documents
    <2> QED
      BY <2>1, <2>2
  <1> QED
    BY <1>1, <1>2, <1>3, CommandFrame DEF OpenEditor, Command, Begin, Documents

\* A document that is valid in the place of a file carries its name.
LEMMA CandidateName ==
    ASSUME NEW set, NEW n, NEW doc, CandidateValid(set, n, doc)
    PROVE  doc.name = n
  BY DEF CandidateValid, LoadableStack

\* The commands that load the set first write documents.
LEMMA LoadingCommandDocuments ==
    ASSUME IInv, Documents, LoadingCommand
    PROVE  Documents'
  <1>1. PICK set \in loadConfigAndStacks, n \in StackNames :
        \/ RemoveStack(set, n)
        \/ \E m \in StackNames : AddMember(set, n, m) \/ RemoveMember(set, n, m)
        \/ \E template \in DOMAIN Templates, members \in MemberLists, allocate \in BOOLEAN :
              \/ AddStack(set, n, template, members, allocate)
              \/ EditNewStack(set, n, template, members, allocate)
        \/ \E source \in StackNames, allocate \in BOOLEAN :
              \/ CloneStack(set, source, n, allocate)
              \/ EditClonedStack(set, source, n, allocate)
    BY DEF LoadingCommand
  <1>2. \A m \in DOMAIN stacks.files : StackShape(stacks.files[m])
    BY DEF Documents, DirShape, NamedFiles, FilesShape
  <1>3. n \in StackNames \cup {ConfigFile}
    OBVIOUS
  <1>4. CASE RemoveStack(set, n)
    <2>1. /\ stacks'.files = Drop(stacks.files, n) /\ stacks'.drafts = stacks.drafts
          /\ stacks'.archives = Put(stacks.archives, n, stacks.files[n])
      BY <1>4 DEF RemoveStack, IInv, Shape
    <2>2. DOMAIN stacks'.archives = DOMAIN stacks.archives \cup {n}
      BY <2>1 DEF Put
    <2>3. DirShape(stacks')
      BY <2>1, <2>2, NamedDrop DEF DirShape, Documents
    <2> QED
      BY <1>4, <2>3, CommandFrame DEF RemoveStack, Command, Begin, Documents
  <1>5. ASSUME NEW m \in StackNames, AddMember(set, n, m) \/ RemoveMember(set, n, m)
        PROVE  Documents'
    <2>1. PICK doc : /\ Command /\ n \in DOMAIN stacks.files
                     /\ doc \in addMemberToDocument(stacks.files[n], m)
                          \cup removeMemberFromDocument(stacks.files[n], m)
                     /\ CandidateValid(set, n, doc) /\ WriteStack(n, doc)
      BY <1>5 DEF AddMember, RemoveMember, Valid
    <2>2. StackShape(doc)
      BY <1>2, <2>1, AddMemberShape, RemoveMemberShape
    <2> QED
      BY <2>1, <2>2, CandidateName, WriteStackDocuments
  <1>6. ASSUME NEW template \in DOMAIN Templates, NEW members \in MemberLists,
               NEW allocate \in BOOLEAN,
               \/ AddStack(set, n, template, members, allocate)
               \/ EditNewStack(set, n, template, members, allocate)
        PROVE  Documents'
    <2>1. PICK doc \in AddCandidates(set, n, template, members, allocate) :
              \/ Command /\ CandidateValid(set, n, doc) /\ WriteStack(n, doc)
              \/ OpenEditor(n, TRUE, doc)
      BY <1>6 DEF AddStack, EditNewStack, Valid
    <2>2. StackShape(doc)
      BY <2>1, AddShape
    <2>3. n # ConfigFile
      BY TargetAssumption
    <2> QED
      BY <1>3, <2>1, <2>2, <2>3, CandidateName, WriteStackDocuments, OpenEditorDocuments
  <1>7. ASSUME NEW source \in StackNames, NEW allocate \in BOOLEAN,
               \/ CloneStack(set, source, n, allocate)
               \/ EditClonedStack(set, source, n, allocate)
        PROVE  Documents'
    <2>1. source \in DOMAIN stacks.files
      BY <1>7 DEF CloneStack, EditClonedStack
    <2>2. PICK doc \in CloneCandidates(set, stacks.files[source], source, n, allocate) :
              \/ Command /\ CandidateValid(set, n, doc) /\ WriteStack(n, doc)
              \/ OpenEditor(n, TRUE, doc)
      BY <1>7 DEF CloneStack, EditClonedStack, Valid
    <2>3. StackShape(doc)
      BY <1>2, <2>1, <2>2, CloneShape
    <2>4. n # ConfigFile
      BY TargetAssumption
    <2> QED
      BY <1>3, <2>2, <2>3, <2>4, CandidateName, WriteStackDocuments, OpenEditorDocuments
  <1> QED
    BY <1>1, <1>4, <1>5, <1>6, <1>7

\* What the editor of a stack leaves is a document.
LEMMA SavedShape ==
    ASSUME Documents, NEW n \in StackNames, n # ConfigFile, NEW content \in Writes[n] \cup DraftOf(n)
    PROVE  StackShape(content)
  BY WritesAssumption DEF DraftOf, Documents, DirShape, FilesShape, StackNames

\* The return of the editor.
LEMMA CloseEditorDocuments ==
    ASSUME IInv, Documents, NEW exit \in {0, 1}, CloseEditor(exit)
    PROVE  Documents'
  <1>1. PICK session \in editor :
            \/ \E content \in (IF session.target = ConfigFile THEN ConfigWrites
                               ELSE Writes[session.target]) \cup DraftOf(session.target) :
                   EditAndCommit(session, content, exit)
            \/ UNCHANGED <<config, configDraft, stacks>>
    BY DEF CloseEditor
  <1>2. AtMostOne(editor')
    BY DEF CloseEditor, AtMostOne
  <1>3. session.target \in StackNames \cup {ConfigFile}
    BY DEF IInv, Targets
  <1>4. CASE UNCHANGED <<config, configDraft, stacks>>
    BY <1>2, <1>4, CommandFrame DEF CloseEditor, Documents
  <1>5. ASSUME session.target = ConfigFile,
               NEW content \in ConfigWrites \cup DraftOf(ConfigFile),
               EditAndCommit(session, content, exit)
        PROVE  Documents'
    <2>1. /\ config' \in {config, <<content>>} /\ configDraft' \in {<<>>, <<content>>}
          /\ UNCHANGED stacks
      BY <1>5 DEF EditAndCommit
    <2>2. ConfigShape(content)
      BY ConfigsAssumption DEF DraftOf, Documents, ListOfOne
    <2>3. ListOfOne(config') /\ ListOfOne(configDraft')
      BY <2>1, <2>2, ListsOfOne DEF Documents
    <2> QED
      BY <1>2, <2>1, <2>3, CommandFrame DEF CloseEditor, Documents
  <1>6. ASSUME session.target # ConfigFile,
               NEW content \in Writes[session.target] \cup DraftOf(session.target),
               EditAndCommit(session, content, exit)
        PROVE  Documents'
    <2> DEFINE n == session.target
    <2>1. n \in StackNames /\ n \in ToSet(StackOrder)
      BY <1>3, <1>6 DEF StackNames
    <2>2. StackShape(content)
      BY <1>6, <2>1, SavedShape
    <2>3. UNCHANGED <<config, configDraft>> /\ stacks'.archives = stacks.archives
      BY <1>6 DEF EditAndCommit, IInv, Shape
    <2>4. \/ stacks'.files = stacks.files
          \/ stacks'.files = Put(stacks.files, n, content) /\ validateEditTarget(n, content)
      BY <1>6 DEF EditAndCommit, IInv, Shape
    <2>5. stacks'.drafts \in {Drop(stacks.drafts, n), Put(stacks.drafts, n, content)}
      BY <1>6 DEF EditAndCommit, IInv, Shape
    <2>6. validateEditTarget(n, content) => content.name = n
      BY <1>6, CandidateName DEF validateEditTarget
    <2>7. NamedFiles(stacks'.files)
      BY <2>1, <2>2, <2>4, <2>6, NamedPut DEF Documents, DirShape
    <2>8. FilesShape(stacks'.drafts)
      <3>1. FilesShape(stacks.drafts)
        BY DEF Documents, DirShape
      <3> QED
        BY <2>1, <2>2, <2>5, <3>1, PutKeepsShape, DropKeepsShape
    <2>9. DirShape(stacks')
      BY <2>3, <2>7, <2>8 DEF DirShape, Documents
    <2> QED
      BY <1>2, <2>3, <2>9, CommandFrame DEF CloseEditor, Documents
  <1> QED
    BY <1>1, <1>4, <1>5, <1>6

\* An import installs, or puts back, documents.
LEMMA ImportMoveDocuments ==
    ASSUME IInv, Documents, ImportMove
    PROVE  Documents'
  <1> DEFINE kept == {config, restore.config, <<>>} \cup {b.config : b \in backup}
  <1>1. UNCHANGED <<configDraft, editor, backup>>
    BY MoveConfigAsideCases, InstallConfigCases, MoveStacksAsideCases, InstallStacksCases
       DEF ImportMove, MoveFrame
  <1>2. config' \in kept
    BY MoveConfigAsideCases, InstallConfigCases, MoveStacksAsideCases, InstallStacksCases
       DEF ImportMove
  <1>3. ListOfOne(config')
    BY <1>2, ListsOfOne DEF Documents
  <1>4. \/ stacks' \in {stacks, restore.stacks, EmptyDir}
        \/ \E b \in backup : stacks' = [EmptyDir EXCEPT !.files = b.files]
    BY MoveConfigAsideCases, InstallConfigCases, MoveStacksAsideCases, InstallStacksCases
       DEF ImportMove
  <1>5. DirShape(stacks')
    <2>1. CASE stacks' \in {stacks, restore.stacks, EmptyDir}
      BY <2>1, EmptyShape DEF Documents
    <2>2. ASSUME NEW b \in backup, stacks' = [EmptyDir EXCEPT !.files = b.files]
          PROVE  DirShape(stacks')
      <3>1. /\ stacks'.files = b.files /\ stacks'.drafts = EmptyDir.drafts
            /\ stacks'.archives = EmptyDir.archives
        BY <2>2 DEF EmptyDir
      <3>2. NamedFiles(b.files)
        BY DEF Documents
      <3> QED
        BY <3>1, <3>2, EmptyShape DEF DirShape
    <2> QED
      BY <1>4, <2>1, <2>2
  <1>6. \/ restore' = NoRestore
        \/ /\ restore'.phase # "none"
           /\ restore'.config = restore.config /\ restore'.stacks = restore.stacks
    <2>1. \/ restore' = NoRestore
          \/ \E phase \in {"aside", "config", "stacks"} : restore' = [restore EXCEPT !.phase = phase]
      BY MoveConfigAsideCases, InstallConfigCases, MoveStacksAsideCases, InstallStacksCases
         DEF ImportMove, Failed
    <2> QED
      BY <2>1 DEF IInv, Shape
  <1>7. ListOfOne(restore'.config) /\ DirShape(restore'.stacks)
    BY <1>6, EmptyShape DEF Documents
  <1> QED
    BY <1>1, <1>3, <1>5, <1>6, <1>7 DEF Documents, NoRestore

\* A base directory starts with documents,
LEMMA InitDocuments == Init => Documents
  <1> SUFFICES ASSUME Init PROVE Documents
    OBVIOUS
  <1>1. PICK start \in Starts : /\ config = start.config
                               /\ stacks = [EmptyDir EXCEPT !.files = start.files]
    BY DEF Init
  <1>2. ListOfOne(config) /\ NamedFiles(start.files)
    BY <1>1, StartsAssumption DEF ListOfOne, NamedFiles
  <1>3. stacks.files = start.files /\ stacks.drafts = EmptyDir.drafts
        /\ stacks.archives = EmptyDir.archives
    BY <1>1 DEF EmptyDir
  <1>4. DirShape(stacks)
    BY <1>2, <1>3, EmptyShape DEF DirShape
  <1> QED
    BY <1>2, <1>4, ListsOfOne, EmptyShape DEF Init, Documents, AtMostOne

\* every step keeps them,
LEMMA NextDocuments ==
    ASSUME IInv, Documents, Next
    PROVE  Documents'
  <1>1. CASE EditConfig
    <2>1. ConfigFile \in StackNames \cup {ConfigFile}
      OBVIOUS
    <2>2. \E c \in ToSet(config) : ConfigShape(c) /\ OpenEditor(ConfigFile, FALSE, c)
      BY <1>1 DEF EditConfig, Documents, ListOfOne
    <2> QED
      BY <2>1, <2>2, OpenEditorDocuments
  <1>2. ASSUME NEW n \in StackNames, EditStack(n) PROVE Documents'
    <2>1. StackShape(stacks.files[n]) /\ OpenEditor(n, FALSE, stacks.files[n])
      BY <1>2 DEF EditStack, Documents, DirShape, NamedFiles, FilesShape
    <2>2. n \in StackNames \cup {ConfigFile} /\ n # ConfigFile
      BY TargetAssumption
    <2> QED
      BY <2>1, <2>2, OpenEditorDocuments
  <1>3. ASSUME NEW force \in BOOLEAN, SetupLocal(force) PROVE Documents'
    <2>1. ListOfOne(config')
      BY <1>3, ListsOfOne, ConfigsAssumption DEF SetupLocal, Documents
    <2> QED
      BY <1>3, <2>1, CommandFrame DEF SetupLocal, Command, Begin, Documents
  <1>4. CASE Export
    <2>1. UNCHANGED <<config, configDraft, stacks, editor, restore>>
          /\ backup' = {[config |-> config, files |-> stacks.files]}
      BY <1>4 DEF Export, Command
    <2>2. \A b \in backup' : b.config = config /\ b.files = stacks.files
      BY <2>1
    <2> QED
      BY <2>1, <2>2 DEF Documents, DirShape
  <1>5. ASSUME NEW force \in BOOLEAN, ImportBegin(force) PROVE Documents'
    <2>1. UNCHANGED <<config, configDraft, stacks, editor, backup>>
          /\ restore' = [phase |-> "staged", config |-> config, stacks |-> stacks]
      BY <1>5 DEF ImportBegin
    <2> QED
      BY <2>1 DEF Documents
  <1>6. CASE Crash
    <2>1. UNCHANGED <<config, configDraft, stacks, editor, backup>> /\ restore' = NoRestore
      BY <1>6 DEF Crash
    <2> QED
      BY <2>1, EmptyShape DEF Documents
  <1> QED
    BY <1>1, <1>2, <1>3, <1>4, <1>5, <1>6, LoadingCommandDocuments, CloseEditorDocuments,
       ImportMoveDocuments DEF Next, ImportMove

\* and so nothing else is ever there.
THEOREM DocumentsAlways == Spec => []Documents
  <1>1. Documents /\ UNCHANGED vars => Documents'
    BY DEF vars, Documents
  <1>2. IInv /\ Documents /\ [Next]_vars => Documents'
    BY <1>1, NextDocuments
  <1> QED
    BY <1>2, InitDocuments, Invariance, PTL DEF Spec

\* Whatever is written, moved and edited, and whatever fails: one config at most, files, drafts
\* and archives of known stacks, and in every file the document that carries its name.
THEOREM StoreTypes == Spec => []TypeOK
  <1>1. ASSUME IInv, Documents PROVE TypeOK
    <2>1. Len(config) <= 1 /\ Len(configDraft) <= 1
      BY <1>1 DEF Documents, ListOfOne
    <2>2. AtMostOne(editor) /\ AtMostOne(backup)
      BY <1>1 DEF Documents, IInv, OneBackup, AtMostOne
    <2>3. Cardinality(editor) <= 1 /\ Cardinality(backup) <= 1
      BY <2>2, AtMostOneCardinality
    <2>4. ASSUME NEW dir \in {stacks, restore.stacks}
          PROVE  /\ DOMAIN dir.drafts \cup DOMAIN dir.archives \subseteq StackNames
                 /\ \A n \in DOMAIN dir.files : n \in StackNames /\ dir.files[n].name = n
      <3>1. DirShape(dir)
        BY <1>1, <2>4 DEF Documents
      <3> QED
        BY <3>1 DEF DirShape, NamedFiles, FilesShape, StackNames
    <2> QED
      BY <1>1, <2>1, <2>3, <2>4 DEF TypeOK, Documents, IInv, Moved, Phases
  <1> QED
    BY <1>1, DocumentsAlways, Invariance, PTL

(***************************************************************************)
(* What a command writes loads.  A candidate is checked in its place among *)
(* the stacks as they were loaded, and loading puts it in the order of the *)
(* names: validation does not mind the order.                              *)
(***************************************************************************)

\* The cells of a table differ whatever the order of its rows.
LEMMA SameRows ==
    ASSUME NEW a, NEW b, ToSet(a) = ToSet(b), \A j, k \in DOMAIN b : b[j] = b[k] => j = k,
           NEW row, NEW rowsA, NEW rowsB, DOMAIN rowsA = DOMAIN a, DOMAIN rowsB = DOMAIN b,
           \A k \in DOMAIN a : rowsA[k] = row[a[k]], \A k \in DOMAIN b : rowsB[k] = row[b[k]],
           NEW key, DistinctCells(rowsA, key)
    PROVE  DistinctCells(rowsB, key)
  <1> SUFFICES ASSUME NEW i \in DOMAIN b, NEW j \in DOMAIN b,
                      NEW k \in DOMAIN rowsB[i], NEW l \in DOMAIN rowsB[j],
                      key[rowsB[i][k]] = key[rowsB[j][l]]
               PROVE  i = j /\ k = l
    BY DEF DistinctCells
  <1>1. b[i] \in ToSet(a) /\ b[j] \in ToSet(a)
    BY DEF ToSet
  <1>2. PICK m \in DOMAIN a : a[m] = b[i]
    BY <1>1 DEF ToSet
  <1>3. PICK n \in DOMAIN a : a[n] = b[j]
    BY <1>1 DEF ToSet
  <1>4. rowsA[m] = rowsB[i] /\ rowsA[n] = rowsB[j]
    BY <1>2, <1>3
  <1>5. m = n /\ k = l
    BY <1>4 DEF DistinctCells
  <1> QED
    BY <1>2, <1>3, <1>5

\* Two loaded sets with one config and the same stacks, in any order.
LoadedList(set) ==
    /\ IsList(set.stacks) /\ \A s \in ToSet(set.stacks) : LoadedStack(s)
    /\ \A j, k \in DOMAIN set.stacks : set.stacks[j].name = set.stacks[k].name => j = k
\* Two documents are alike in the values a check of one document reads.
Alike(a, b) ==
    /\ LoadedList(a) /\ LoadedList(b)
    /\ a.config = b.config /\ ToSet(a.stacks) = ToSet(b.stacks)

\* Their services and the refs between them are the same.
LEMMA AlikeGraphs ==
    ASSUME NEW a, NEW b, Alike(a, b)
    PROVE  Graph(a) = Graph(b) /\ (RefsResolve(a) <=> RefsResolve(b))
  <1>1. ToSet(a.stacks) = ToSet(b.stacks) /\ IsList(a.stacks) /\ IsList(b.stacks)
    BY DEF Alike, LoadedList
  <1>2. XrayInboundIndex(a) = XrayInboundIndex(b) /\ ClashListenerIndex(a) = ClashListenerIndex(b)
    BY <1>1 DEF XrayInboundIndex, ClashListenerIndex
  <1>3. CollectServiceNodes(a) = CollectServiceNodes(b)
    BY <1>1 DEF CollectServiceNodes
  <1>4. \A n : ByName(a, n) = ByName(b, n)
    BY <1>1 DEF ByName
  <1>5. \A s : XrayDependencies(a, s) = XrayDependencies(b, s)
               /\ ClashDependencies(a, s) = ClashDependencies(b, s)
    BY <1>2 DEF XrayDependencies, ClashDependencies, ResolveClashListener
  <1>6. Dependencies(a) = Dependencies(b)
    BY <1>4, <1>5 DEF Dependencies
  <1>7. ToSet(Column(a.stacks, LAMBDA s : s.name)) = ToSet(Column(b.stacks, LAMBDA s : s.name))
    <2>1. /\ ToSet(Column(a.stacks, LAMBDA s : s.name)) = {a.stacks[k].name : k \in DOMAIN a.stacks}
          /\ ToSet(Column(b.stacks, LAMBDA s : s.name)) = {b.stacks[k].name : k \in DOMAIN b.stacks}
      BY <1>1, NamesUnique
    <2>2. \A set : {set.stacks[k].name : k \in DOMAIN set.stacks} = {s.name : s \in ToSet(set.stacks)}
      BY DEF ToSet
    <2>3. {s.name : s \in ToSet(a.stacks)} = {s.name : s \in ToSet(b.stacks)}
      BY <1>1
    <2>4. ToSet(Column(a.stacks, LAMBDA s : s.name)) = {s.name : s \in ToSet(a.stacks)}
      BY <2>1, <2>2
    <2>5. ToSet(Column(b.stacks, LAMBDA s : s.name)) = {s.name : s \in ToSet(b.stacks)}
      BY <2>1, <2>2
    <2> QED
      BY <2>3, <2>4, <2>5
  <1>8. \A s : (XrayRefResolves(a, s) <=> XrayRefResolves(b, s))
               /\ (ClashRefsResolve(a, s) <=> ClashRefsResolve(b, s))
    BY <1>2 DEF XrayRefResolves, ClashRefsResolve, ResolveClashListener, ResolveXrayInbound
  <1> QED
    BY <1>1, <1>3, <1>6, <1>7, <1>8 DEF Graph, RefsResolve

\* Their ports differ alike.
LEMMA AlikePorts ==
    ASSUME NEW a, NEW b, Alike(a, b), ValidateUniquePorts(CollectPortBindings(a))
    PROVE  ValidateUniquePorts(CollectPortBindings(b))
  <1> DEFINE rowsA == [j \in DOMAIN a.stacks |-> SocketRow(a, a.stacks[j])]
             rowsB == [j \in DOMAIN b.stacks |-> SocketRow(b, b.stacks[j])]
             row == [s \in ToSet(a.stacks) |-> SocketRow(a, s)]
             all == ToSet(CollectPortBindings(a)) \cup ToSet(CollectPortBindings(b))
             key == [e \in all |-> e[2]]
  <1>1. /\ IsTable(rowsA) /\ CollectPortBindings(a) = FlattenSeq(rowsA)
        /\ IsTable(rowsB) /\ CollectPortBindings(b) = FlattenSeq(rowsB)
    BY BindingTable DEF Alike, LoadedList
  <1>2. IsList(CollectPortBindings(a)) /\ IsList(CollectPortBindings(b))
    BY <1>1, FlattenPlaces
  <1>3. /\ \A k \in DOMAIN CollectPortBindings(a) :
              key[CollectPortBindings(a)[k]] = CollectPortBindings(a)[k][2]
        /\ \A k \in DOMAIN CollectPortBindings(b) :
              key[CollectPortBindings(b)[k]] = CollectPortBindings(b)[k][2]
    BY DEF ToSet
  <1>4. \A s : SocketRow(a, s) = SocketRow(b, s)
    BY DEF SocketRow, XrayBindings, Alike
  <1>5. /\ ToSet(a.stacks) = ToSet(b.stacks)
        /\ \A j, k \in DOMAIN b.stacks : b.stacks[j] = b.stacks[k] => j = k
    BY DEF Alike, LoadedList
  <1>6. /\ DOMAIN rowsA = DOMAIN a.stacks /\ DOMAIN rowsB = DOMAIN b.stacks
        /\ \A k \in DOMAIN a.stacks : rowsA[k] = row[a.stacks[k]]
        /\ \A k \in DOMAIN b.stacks : rowsB[k] = row[b.stacks[k]]
    BY <1>4, <1>5 DEF ToSet
  <1> HIDE DEF rowsA, rowsB, row, key
  <1>7. DistinctCells(rowsA, key)
    BY <1>1, <1>2, <1>3, PortsDistinct, FlattenDistinct DEF ValidateUniquePorts
  <1>8. DistinctCells(rowsB, key)
    BY <1>5, <1>6, <1>7, SameRows
  <1> QED
    BY <1>1, <1>2, <1>3, <1>8, PortsDistinct, FlattenDistinct DEF ValidateUniquePorts

\* Their users and node names differ alike.
LEMMA AlikeProxyNames ==
    ASSUME NEW a, NEW b, Alike(a, b), ValidateSubscriptionProxyNames(a)
    PROVE  ValidateSubscriptionProxyNames(b)
  <1> DEFINE rowsA == [j \in DOMAIN a.stacks |-> ProxyNamesOf(a.stacks[j])]
             rowsB == [j \in DOMAIN b.stacks |-> ProxyNamesOf(b.stacks[j])]
             row == [s \in ToSet(a.stacks) |-> ProxyNamesOf(s)]
             flatA == FlattenSeq(rowsA)
             flatB == FlattenSeq(rowsB)
             all == ToSet(flatA) \cup ToSet(flatB)
             key == [e \in all |-> e]
  <1>1. /\ ValidateSubscriptionProxyNames(a) <=> ensureUnique(FlattenSeq(rowsA \o <<>>))
        /\ ValidateSubscriptionProxyNames(b) <=> ensureUnique(FlattenSeq(rowsB \o <<>>))
    BY DEF ValidateSubscriptionProxyNames, ProxyNamesOf, Column
  <1>2. /\ IsList(a.stacks) /\ IsList(b.stacks) /\ ToSet(a.stacks) = ToSet(b.stacks)
        /\ \A j, k \in DOMAIN b.stacks : b.stacks[j] = b.stacks[k] => j = k
        /\ \A s \in ToSet(a.stacks) : LoadedStack(s)
    BY DEF Alike, LoadedList
  <1>3. /\ rowsA = [j \in DOMAIN a.stacks |-> rowsA[j]] /\ rowsB = [j \in DOMAIN b.stacks |-> rowsB[j]]
        /\ \A k \in DOMAIN a.stacks : rowsA[k] = row[a.stacks[k]] /\ IsList(rowsA[k])
        /\ \A k \in DOMAIN b.stacks : rowsB[k] = row[b.stacks[k]] /\ IsList(rowsB[k])
    BY <1>2, ProxyNamesList DEF ToSet
  <1>4. /\ \A k \in DOMAIN flatA : key[flatA[k]] = flatA[k]
        /\ \A k \in DOMAIN flatB : key[flatB[k]] = flatB[k]
    BY DEF ToSet
  <1> HIDE DEF rowsA, rowsB, row, key
  <1>5. /\ rowsA \o <<>> = rowsA /\ IsList(rowsA) /\ DOMAIN rowsA = DOMAIN a.stacks
        /\ rowsB \o <<>> = rowsB /\ IsList(rowsB) /\ DOMAIN rowsB = DOMAIN b.stacks
    BY <1>2, <1>3, ColumnFacts
  <1>6. IsTable(rowsA) /\ IsTable(rowsB)
    BY <1>3, <1>5 DEF IsTable
  <1>7. DistinctRow(flatA, key)
    BY <1>1, <1>4, <1>5 DEF ensureUnique, DistinctRow
  <1>8. DistinctCells(rowsA, key)
    BY <1>6, <1>7, FlattenDistinct
  <1>9. DistinctCells(rowsB, key)
    <2>1. /\ \A k \in DOMAIN a.stacks : rowsA[k] = row[a.stacks[k]]
          /\ \A k \in DOMAIN b.stacks : rowsB[k] = row[b.stacks[k]]
      BY <1>3
    <2>2. /\ ToSet(a.stacks) = ToSet(b.stacks)
          /\ \A j, k \in DOMAIN b.stacks : b.stacks[j] = b.stacks[k] => j = k
      BY <1>2
    <2>3. DOMAIN rowsA = DOMAIN a.stacks /\ DOMAIN rowsB = DOMAIN b.stacks
      BY <1>5
    <2> QED
      BY <1>8, <2>1, <2>2, <2>3, SameRows
  <1>10. DistinctRow(flatB, key)
    BY <1>6, <1>9, FlattenDistinct
  <1> QED
    BY <1>1, <1>4, <1>5, <1>10 DEF ensureUnique, DistinctRow

\* What validation accepts it accepts in any order.
LEMMA AlikeValid ==
    ASSUME NEW a, NEW b, Alike(a, b), ValidateStackSet(a, {})
    PROVE  ValidateStackSet(b, {})
  <1>1. ValidateUniqueStackNames(b)
    BY NamesUnique DEF ValidateUniqueStackNames, Alike, LoadedList
  <1>2. ValidatePublicInboundAuth(b)
    BY DEF ValidateStackSet, ValidatePublicInboundAuth, EnabledXrayStacks, Alike
  <1>3. ValidateSubscriptionProxyNames(b)
    BY AlikeProxyNames DEF ValidateStackSet
  <1>4. ValidateUniquePorts(CollectPortBindings(b))
    BY AlikePorts DEF ValidateStackSet
  <1>5. ValidReferenceGraph(b)
    BY AlikeGraphs DEF ValidateStackSet, ValidReferenceGraph
  <1>6. ValidateSystemPortsAvailable(CollectPortBindings(b), {})
    BY DEF ValidateSystemPortsAvailable
  <1> QED
    BY <1>1, <1>2, <1>3, <1>4, <1>5, <1>6 DEF ValidateStackSet

\* The stacks of other names.
OthersThan(list, n) == Keep(list, LAMBDA s : s.name # n)

\* They are a list, and each is there once.
LEMMA OtherStacks ==
    ASSUME NEW list, IsList(list), \A j, k \in DOMAIN list : list[j].name = list[k].name => j = k,
           NEW n
    PROVE  LET others == OthersThan(list, n)
           IN  /\ IsList(others)
               /\ \A s : s \in ToSet(others) <=> s \in ToSet(list) /\ s.name # n
               /\ \A j, k \in DOMAIN others : others[j].name = others[k].name => j = k
  <1> DEFINE rows == [k \in DOMAIN list |-> IF list[k].name # n THEN <<list[k]>> ELSE <<>>]
             others == FlattenSeq(rows)
             key == [s \in ToSet(list) |-> s.name]
  <1>1. OthersThan(list, n) = others
    BY DEF OthersThan, Keep
  <1>2. /\ rows = [k \in DOMAIN list |-> rows[k]]
        /\ \A k \in DOMAIN list : rows[k] \in {<<>>, <<list[k]>>}
        /\ \A k \in DOMAIN list : rows[k] # <<>> <=> list[k].name # n
    OBVIOUS
  <1>3. \A s \in ToSet(list) : key[s] = s.name
    OBVIOUS
  <1> HIDE DEF rows, key
  <1>4. /\ IsList(others)
        /\ \A s : s \in ToSet(others) <=> \E k \in DOMAIN list : rows[k] # <<>> /\ s = list[k]
    BY <1>2, KeepFacts
  <1>5. DistinctRow(list, key)
    BY <1>3 DEF DistinctRow, ToSet
  <1>6. DistinctRow(others, key)
    BY <1>2, <1>5, KeepFacts
  <1> HIDE DEF others
  <1>7. \A s : s \in ToSet(others) <=> s \in ToSet(list) /\ s.name # n
    <2>1. \A k \in DOMAIN list : rows[k] # <<>> <=> list[k].name # n
      BY <1>2
    <2>2. \A s : (\E k \in DOMAIN list : rows[k] # <<>> /\ s = list[k])
                    <=> s \in ToSet(list) /\ s.name # n
      BY <2>1 DEF ToSet
    <2> QED
      BY <1>4, <2>2
  <1>8. \A k \in DOMAIN others : key[others[k]] = others[k].name
    BY <1>3, <1>7 DEF ToSet
  <1>9. \A j, k \in DOMAIN others : others[j].name = others[k].name => j = k
    BY <1>6, <1>8 DEF DistinctRow
  <1> QED
    BY <1>1, <1>4, <1>7, <1>9

\* The set in which a candidate is checked.
LEMMA CandidateSet ==
    ASSUME NEW c, NEW files, FilesShape(files), LoadsWith(c, files, {}),
           NEW n \in StackNames, NEW doc, StackShape(doc),
           CandidateValid(LoadedStacks(c, files), n, doc)
    PROVE  /\ ResolvableStack(c, doc)
           /\ \E a : /\ a.config = c /\ LoadedList(a) /\ ValidateStackSet(a, {})
                     /\ \A s : s \in ToSet(a.stacks)
                                  <=> \/ s = ResolveStackUserRefs(c, doc)
                                      \/ \E m \in DOMAIN files \ {n} : s = ResolveStackUserRefs(c, files[m])
  <1> DEFINE set == LoadedStacks(c, files)
             others == OthersThan(set.stacks, n)
             next == [set EXCEPT !.stacks = Append(others, doc)]
             a == ResolveStackSetUserRefs(next)
             list == Append(others, doc)
             new == ResolveStackUserRefs(c, doc)
  <1>1. /\ set.config = c /\ IsList(set.stacks)
        /\ \A s : s \in ToSet(set.stacks) <=> \E m \in DOMAIN files : s = ResolveStackUserRefs(c, files[m])
        /\ \A m \in DOMAIN files : ResolveStackUserRefs(c, files[m]).name = m
        /\ \A j, k \in DOMAIN set.stacks : set.stacks[j].name = set.stacks[k].name => j = k
        /\ \A s \in ToSet(set.stacks) : LoadedStack(s)
    BY LoadedFacts
  <1>2. DOMAIN set = {"config", "stacks"}
    <2>1. DOMAIN LoadStacks(c, files) = {"config", "stacks"}
      BY DEF LoadStacks
    <2>2. DOMAIN files \subseteq ToSet(StackOrder)
      BY DEF FilesShape
    <2>3. IsList(LoadStacks(c, files).stacks)
      BY <2>2, LoadStacksFacts
    <2> QED
      BY <2>1, <2>3, ResolveSetFacts DEF LoadedStacks
  <1>3. LoadableStack(n, doc) /\ Resolvable(next) /\ ValidateStackSet(a, {})
    BY DEF CandidateValid, OthersThan
  <1> HIDE DEF set
  <1>4. /\ IsList(others)
        /\ \A s : s \in ToSet(others) <=> s \in ToSet(set.stacks) /\ s.name # n
        /\ \A j, k \in DOMAIN others : others[j].name = others[k].name => j = k
    <2>1. /\ IsList(set.stacks)
          /\ \A j, k \in DOMAIN set.stacks : set.stacks[j].name = set.stacks[k].name => j = k
      BY <1>1
    <2> QED
      BY <2>1, OtherStacks
  <1> HIDE DEF others
  <1>5. /\ IsList(list) /\ Len(list) = Len(others) + 1
        /\ \A k \in DOMAIN others : list[k] = others[k]
        /\ list[Len(others) + 1] = doc
    <2>1. IsList(others) /\ list = Append(others, doc)
      BY <1>4
    <2> HIDE DEF list
    <2>2. Longer(list, others, doc)
      BY <2>1, LongerList
    <2> QED
      BY <2>2 DEF Longer
  <1>6. next.config = c /\ next.stacks = list /\ DOMAIN next = {"config", "stacks"}
    BY <1>1, <1>2
  <1> HIDE DEF next, list, new
  <1>7. /\ a.config = c /\ IsList(a.stacks) /\ DOMAIN a.stacks = DOMAIN list
        /\ \A k \in DOMAIN list : a.stacks[k] = ResolveStackUserRefs(c, list[k])
    BY <1>5, <1>6, ResolveSetFacts
  <1> HIDE DEF a
  <1>8. /\ DOMAIN others = 1..Len(others) /\ Len(others) \in Nat
        /\ DOMAIN list = 1..(Len(others) + 1)
    BY <1>4, <1>5, ListShape
  <1>9. ResolvableStack(c, doc)
    <2>1. Len(others) + 1 \in DOMAIN next.stacks /\ next.stacks[Len(others) + 1] = doc
      BY <1>5, <1>6, <1>8
    <2> QED
      BY <1>3, <1>6, <2>1 DEF Resolvable
  <1>10. a.stacks[Len(others) + 1] = new
    BY <1>5, <1>7, <1>8 DEF new
  <1>11. ASSUME NEW k \in DOMAIN others PROVE a.stacks[k] = others[k]
    <2>1. others[k] \in ToSet(others)
      BY DEF ToSet
    <2>2. PICK m \in DOMAIN files : others[k] = ResolveStackUserRefs(c, files[m])
      BY <1>1, <1>4, <2>1
    <2>3. StackShape(files[m])
      BY DEF FilesShape
    <2>4. ResolveStackUserRefs(c, others[k]) = others[k]
      BY <2>2, <2>3, ResolvedTwice
    <2> QED
      BY <1>5, <1>7, <1>8, <2>4
  <1>12. LoadedStack(new) /\ new.name = n
    <2>1. doc.name = n
      BY <1>3 DEF LoadableStack
    <2> QED
      BY <1>3, <1>9, <2>1, LoadedStackFacts, ResolveStackFacts DEF new, StackNames
  <1>13. \A s : s \in ToSet(a.stacks) <=> s = new \/ s \in ToSet(others)
    <2>1. \A k \in DOMAIN a.stacks : k \in DOMAIN others \/ k = Len(others) + 1
      BY <1>7, <1>8
    <2>2. Len(others) + 1 \in DOMAIN a.stacks /\ DOMAIN others \subseteq DOMAIN a.stacks
      BY <1>7, <1>8
    <2> QED
      BY <1>10, <1>11, <2>1, <2>2 DEF ToSet
  <1>14. LoadedList(a)
    <2>1. \A k \in DOMAIN others : others[k].name # n
      BY <1>4 DEF ToSet
    <2>2. \A k \in DOMAIN a.stacks : k \in DOMAIN others \/ k = Len(others) + 1
      BY <1>7, <1>8
    <2>3. \A j, k \in DOMAIN a.stacks : a.stacks[j].name = a.stacks[k].name => j = k
      BY <1>4, <1>10, <1>11, <1>12, <2>1, <2>2
    <2>4. \A s \in ToSet(a.stacks) : LoadedStack(s)
      BY <1>1, <1>4, <1>12, <1>13
    <2> QED
      BY <1>7, <2>3, <2>4 DEF LoadedList
  <1>15. ASSUME NEW s
         PROVE  s \in ToSet(others) <=> \E m \in DOMAIN files \ {n} : s = ResolveStackUserRefs(c, files[m])
    BY <1>1, <1>4
  <1>16. \A s : s \in ToSet(a.stacks)
                   <=> \/ s = new
                       \/ \E m \in DOMAIN files \ {n} : s = ResolveStackUserRefs(c, files[m])
    BY <1>13, <1>15
  <1> QED
    BY <1>3, <1>7, <1>9, <1>14, <1>16 DEF new

\* What is written after it was checked loads.
LEMMA WrittenLoads ==
    ASSUME NEW c, NEW files, FilesShape(files), LoadsWith(c, files, {}),
           NEW n \in StackNames, NEW doc, StackShape(doc),
           CandidateValid(LoadedStacks(c, files), n, doc)
    PROVE  LoadsWith(c, Put(files, n, doc), {})
  <1> DEFINE written == Put(files, n, doc)
             b == LoadedStacks(c, written)
  <1>1. /\ ValidateConfig(c) /\ \A m \in DOMAIN files : LoadableStack(m, files[m])
        /\ Resolvable(LoadStacks(c, files))
    BY DEF LoadsWith
  <1>2. LoadableStack(n, doc)
    BY DEF CandidateValid
  <1>3. /\ DOMAIN written = DOMAIN files \cup {n} /\ written[n] = doc
        /\ \A m \in DOMAIN files \ {n} : written[m] = files[m]
    BY DEF Put
  <1>4. FilesShape(written)
    BY PutKeepsShape DEF StackNames
  <1> HIDE DEF written, b
  <1>5. \A m \in DOMAIN written : LoadableStack(m, written[m])
    BY <1>1, <1>2, <1>3
  <1>6. ResolvableStack(c, doc)
    BY CandidateSet
  <1>7. Resolvable(LoadStacks(c, written))
    <2>1. \A m \in DOMAIN files : ResolvableStack(c, files[m])
      <3> TAKE m \in DOMAIN files
      <3>1. files[m] \in ToSet(LoadStacks(c, files).stacks) /\ LoadStacks(c, files).config = c
        BY LoadStacksFacts DEF FilesShape
      <3> QED
        BY <1>1, <3>1 DEF Resolvable, ToSet
    <2>2. \A m \in DOMAIN written : ResolvableStack(c, written[m])
      BY <1>3, <1>6, <2>1
    <2>3. /\ \A s \in ToSet(LoadStacks(c, written).stacks) : \E m \in DOMAIN written : s = written[m]
          /\ LoadStacks(c, written).config = c
      BY <1>4, LoadStacksFacts DEF FilesShape
    <2> QED
      BY <2>2, <2>3 DEF Resolvable, ToSet
  <1>8. /\ b.config = c /\ IsList(b.stacks)
        /\ \A s : s \in ToSet(b.stacks) <=> \E m \in DOMAIN written : s = ResolveStackUserRefs(c, written[m])
        /\ \A j, k \in DOMAIN b.stacks : b.stacks[j].name = b.stacks[k].name => j = k
        /\ \A s \in ToSet(b.stacks) : LoadedStack(s)
    BY <1>4, <1>5, <1>7, ReadFacts DEF b
  <1>9. PICK a : /\ a.config = c /\ LoadedList(a) /\ ValidateStackSet(a, {})
                 /\ \A s : s \in ToSet(a.stacks)
                              <=> \/ s = ResolveStackUserRefs(c, doc)
                                  \/ \E m \in DOMAIN files \ {n} : s = ResolveStackUserRefs(c, files[m])
    BY CandidateSet
  <1>10. \A s : s \in ToSet(a.stacks) <=> s \in ToSet(b.stacks)
    BY <1>3, <1>8, <1>9
  <1>11. Alike(a, b)
    BY <1>8, <1>9, <1>10 DEF Alike, LoadedList
  <1>12. ValidateStackSet(b, {})
    BY <1>9, <1>11, AlikeValid
  <1> QED
    BY <1>1, <1>5, <1>7, <1>12 DEF LoadsWith, b, written

\* Writing a stack file leaves files that load, if the command checked the document.
LEMMA CheckedLoads ==
    ASSUME Documents, NEW set \in loadConfigAndStacks, NEW n \in StackNames, NEW doc,
           StackShape(doc), CandidateValid(set, n, doc),
           stacks'.files = Put(stacks.files, n, doc), config' = config
    PROVE  \E c \in ToSet(config') : LoadsWith(c, stacks'.files, {})
  <1>1. PICK c \in ToSet(config) : LoadsWith(c, stacks.files, {}) /\ set = LoadedStacks(c, stacks.files)
    BY DEF loadConfigAndStacks
  <1>2. FilesShape(stacks.files)
    BY DEF Documents, DirShape, NamedFiles
  <1> QED
    BY <1>1, <1>2, WrittenLoads

\* A command ends with other files than before, and not as remove or setup do.
Commits ==
    /\ restore.phase = "none" /\ restore'.phase = "none"
    /\ config' # config \/ stacks'.files # stacks.files
    /\ config' # <<DefaultConfig>>
    /\ DOMAIN stacks.files \subseteq DOMAIN stacks'.files
\* The base directory loads after the step.
SomeLoads == \E c \in ToSet(config') : LoadsWith(c, stacks'.files, {})

\* The commands that load the set first leave a base directory that loads.
LEMMA LoadingCommandLoads ==
    ASSUME IInv, Documents, LoadingCommand, Commits
    PROVE  SomeLoads
  <1>1. PICK set \in loadConfigAndStacks, n \in StackNames :
        \/ RemoveStack(set, n)
        \/ \E m \in StackNames : AddMember(set, n, m) \/ RemoveMember(set, n, m)
        \/ \E template \in DOMAIN Templates, members \in MemberLists, allocate \in BOOLEAN :
              \/ AddStack(set, n, template, members, allocate)
              \/ EditNewStack(set, n, template, members, allocate)
        \/ \E source \in StackNames, allocate \in BOOLEAN :
              \/ CloneStack(set, source, n, allocate)
              \/ EditClonedStack(set, source, n, allocate)
    BY DEF LoadingCommand
  <1>2. \A m \in DOMAIN stacks.files : StackShape(stacks.files[m])
    BY DEF Documents, DirShape, NamedFiles, FilesShape
  <1>3. ASSUME NEW doc, StackShape(doc), CandidateValid(set, n, doc), WriteStack(n, doc)
        PROVE  SomeLoads
    <2>1. stacks'.files = Put(stacks.files, n, doc) /\ config' = config
      BY <1>3 DEF WriteStack, IInv, Shape
    <2> QED
      BY <1>3, <2>1, CheckedLoads DEF SomeLoads
  <1>4. ASSUME NEW target, NEW initial, OpenEditor(target, TRUE, initial)
        PROVE  FALSE
    <2>1. stacks'.files = stacks.files /\ config' = config
      BY <1>4 DEF OpenEditor, prepareDraft, IInv, Shape
    <2> QED
      BY <2>1 DEF Commits
  <1>5. ~RemoveStack(set, n)
    <2> SUFFICES ASSUME RemoveStack(set, n) PROVE FALSE
      OBVIOUS
    <2>1. stacks'.files = Drop(stacks.files, n) /\ n \in DOMAIN stacks.files
      BY DEF RemoveStack, IInv, Shape
    <2> QED
      BY <2>1 DEF Commits, Drop
  <1>6. ASSUME NEW m \in StackNames, AddMember(set, n, m) \/ RemoveMember(set, n, m)
        PROVE  SomeLoads
    <2>1. PICK doc : /\ n \in DOMAIN stacks.files
                     /\ doc \in addMemberToDocument(stacks.files[n], m)
                          \cup removeMemberFromDocument(stacks.files[n], m)
                     /\ CandidateValid(set, n, doc) /\ WriteStack(n, doc)
      BY <1>6 DEF AddMember, RemoveMember, Valid
    <2>2. StackShape(doc)
      BY <1>2, <2>1, AddMemberShape, RemoveMemberShape
    <2> QED
      BY <1>3, <2>1, <2>2
  <1>7. ASSUME NEW template \in DOMAIN Templates, NEW members \in MemberLists,
               NEW allocate \in BOOLEAN,
               \/ AddStack(set, n, template, members, allocate)
               \/ EditNewStack(set, n, template, members, allocate)
        PROVE  SomeLoads
    <2>1. PICK doc \in AddCandidates(set, n, template, members, allocate) :
              \/ CandidateValid(set, n, doc) /\ WriteStack(n, doc)
              \/ OpenEditor(n, TRUE, doc)
      BY <1>7 DEF AddStack, EditNewStack, Valid
    <2>2. StackShape(doc)
      BY <2>1, AddShape
    <2> QED
      BY <1>3, <1>4, <2>1, <2>2
  <1>8. ASSUME NEW source \in StackNames, NEW allocate \in BOOLEAN,
               \/ CloneStack(set, source, n, allocate)
               \/ EditClonedStack(set, source, n, allocate)
        PROVE  SomeLoads
    <2>1. source \in DOMAIN stacks.files
      BY <1>8 DEF CloneStack, EditClonedStack
    <2>2. PICK doc \in CloneCandidates(set, stacks.files[source], source, n, allocate) :
              \/ CandidateValid(set, n, doc) /\ WriteStack(n, doc)
              \/ OpenEditor(n, TRUE, doc)
      BY <1>8 DEF CloneStack, EditClonedStack, Valid
    <2>3. StackShape(doc)
      BY <1>2, <2>1, <2>2, CloneShape
    <2> QED
      BY <1>3, <1>4, <2>2, <2>3
  <1> QED
    BY <1>1, <1>5, <1>6, <1>7, <1>8

\* The return of the editor: everything was read again before the draft became the file.
LEMMA CloseEditorLoads ==
    ASSUME IInv, Documents, NEW exit \in {0, 1}, CloseEditor(exit), Commits
    PROVE  SomeLoads
  <1>1. PICK session \in editor :
            \/ \E content \in (IF session.target = ConfigFile THEN ConfigWrites
                               ELSE Writes[session.target]) \cup DraftOf(session.target) :
                   EditAndCommit(session, content, exit)
            \/ UNCHANGED <<config, configDraft, stacks>>
    BY DEF CloseEditor
  <1>2. session.target \in StackNames \cup {ConfigFile}
    BY DEF IInv, Targets
  <1>3. ~UNCHANGED <<config, configDraft, stacks>>
    BY DEF Commits
  <1>4. ASSUME session.target = ConfigFile, NEW content, EditAndCommit(session, content, exit)
        PROVE  SomeLoads
    <2>1. UNCHANGED stacks /\ config' \in {config, <<content>>}
      BY <1>4 DEF EditAndCommit
    <2>2. config' # config
      BY <2>1 DEF Commits
    <2>3. config' = <<content>> /\ LoadsWith(content, stacks.files, {})
      BY <1>4, <2>2 DEF EditAndCommit, validateEditTarget
    <2>4. content \in ToSet(config')
      BY <2>3, SingletonList
    <2> QED
      BY <2>1, <2>3, <2>4 DEF SomeLoads
  <1>5. ASSUME session.target # ConfigFile,
               NEW content \in Writes[session.target] \cup DraftOf(session.target),
               EditAndCommit(session, content, exit)
        PROVE  SomeLoads
    <2> DEFINE n == session.target
    <2>1. n \in StackNames
      BY <1>2, <1>5
    <2>2. StackShape(content)
      BY <1>5, <2>1, SavedShape
    <2>3. config' = config
      BY <1>5 DEF EditAndCommit
    <2>4. stacks'.files = Put(stacks.files, n, content) /\ validateEditTarget(n, content)
      BY <1>5, <2>3 DEF EditAndCommit, IInv, Shape, Commits
    <2>5. PICK set \in loadConfigAndStacks : CandidateValid(set, n, content)
      BY <1>5, <2>4 DEF validateEditTarget
    <2> QED
      BY <2>1, <2>2, <2>3, <2>4, <2>5, CheckedLoads DEF SomeLoads
  <1> QED
    BY <1>1, <1>3, <1>4, <1>5

\* Whatever other commands did while an editor was open: what a command commits loads, together
\* with all that is there then.
THEOREM CommitsLoad == Spec => CommittedMeansLoads
  <1>1. IInv /\ Documents /\ [Next]_vars => [Commits => SomeLoads]_vars
    <2> SUFFICES ASSUME IInv, Documents, Next, Commits
                 PROVE  SomeLoads
      OBVIOUS
    <2>1. ~Export /\ ~EditConfig /\ ~\E n \in StackNames : EditStack(n)
      BY DEF Export, EditConfig, EditStack, OpenEditor, prepareDraft, Commits, IInv, Shape
    <2>2. ~\E force \in BOOLEAN : SetupLocal(force) \/ ImportBegin(force)
      BY DEF SetupLocal, ImportBegin, Commits
    <2>3. ~ImportMove /\ ~Crash
      BY MoveConfigAsideCases, InstallConfigCases, MoveStacksAsideCases, InstallStacksCases
         DEF ImportMove, Crash, Commits
    <2> QED
      BY <2>1, <2>2, <2>3, LoadingCommandLoads, CloseEditorLoads DEF Next, ImportMove
  <1> QED
    BY <1>1, DocumentsAlways, Invariance, PTL DEF Spec, CommittedMeansLoads, Commits, SomeLoads

(***************************************************************************)
(* Clones.                                                                 *)
(***************************************************************************)

\* The refs of a document that are read are those of another, rewritten.
RefsOf(doc, old, source, n) ==
    LET named == [old EXCEPT !.name = n]
    IN  /\ doc.xray.outbound.type = old.xray.outbound.type
        /\ old.xray.outbound.type = "clash" =>
              doc.xray.outbound.ref = RewriteRef(named, source, n, old.xray.outbound.ref)
        /\ IsList(doc.clash.upstreams) /\ DOMAIN doc.clash.upstreams = DOMAIN old.clash.upstreams
        /\ \A k \in DOMAIN old.clash.upstreams :
              /\ doc.clash.upstreams[k].type = old.clash.upstreams[k].type
              /\ old.clash.upstreams[k].type = "xray-socks5" =>
                    doc.clash.upstreams[k].ref
                       = RewriteRef(named, source, n, old.clash.upstreams[k].ref)

\* So are those of a clone.
LEMMA CloneRefs ==
    ASSUME NEW set, NEW old, StackShape(old), NEW source, NEW n,
           NEW doc \in CloneCandidates(set, old, source, n, FALSE)
    PROVE  RefsOf(doc, old, source, n)
  <1> DEFINE named == [old EXCEPT !.name = n]
             base == rewriteXrayOutboundRef(named, source, n)
             self == rewriteSelfRefsInNode(named, source, n)
             One(u) == IF u.type = "xray-socks5"
                       THEN [u EXCEPT !.ref = RewriteRef(named, source, n, @)] ELSE u
             ups == base.clash.upstreams
             new == [k \in DOMAIN ups |-> One(ups[k])]
             ref == RewriteRef(named, source, n, named.xray.outbound.ref)
             to == [named.xray EXCEPT !.outbound = [named.xray.outbound EXCEPT !.ref = ref]]
  <1>1. doc = rewriteSubscriptionRemarksInNode(self, source, n)
    BY DEF CloneCandidates
  <1>2. StackShape(named) /\ named.xray = old.xray /\ named.clash = old.clash
    BY RenamedShape DEF StackShape
  <1>3. self = [base EXCEPT !.clash.upstreams = new \o <<>>]
    BY DEF rewriteSelfRefsInNode, Column
  <1>4. base = IF named.xray.outbound.type = "clash" THEN [named EXCEPT !.xray = to] ELSE named
    BY DEF rewriteXrayOutboundRef
  <1> HIDE DEF named, ref
  <1>5. to.outbound.ref = ref /\ to.outbound.type = named.xray.outbound.type
    BY <1>2 DEF StackShape, XrayShape
  <1> HIDE DEF to
  <1>6. /\ base.clash = named.clash
        /\ base.xray.outbound.type = named.xray.outbound.type
        /\ named.xray.outbound.type = "clash" => base.xray.outbound.ref = ref
    BY <1>2, <1>4, <1>5 DEF StackShape
  <1>7. StackShape(base) /\ StackShape(self)
    BY <1>2, OutboundRefShape, SelfRefsShape
  <1> HIDE DEF base, self
  <1>8. UpstreamList(ups)
    BY <1>7, ShapeLists
  <1>9. /\ new = [k \in DOMAIN ups |-> new[k]]
        /\ \A k \in DOMAIN ups : new[k] = One(ups[k])
    OBVIOUS
  <1>10. ASSUME NEW u, UpstreamShape(u)
         PROVE  /\ One(u).type = u.type
                /\ u.type = "xray-socks5" => One(u).ref = RewriteRef(named, source, n, u.ref)
    BY <1>10 DEF UpstreamShape
  <1> HIDE DEF One, new
  <1>11. new \o <<>> = new /\ IsList(new) /\ DOMAIN new = DOMAIN ups
    BY <1>8, <1>9, ColumnFacts DEF UpstreamList
  <1>12. self.xray = base.xray /\ self.clash.upstreams = new
    BY <1>3, <1>7, <1>11 DEF StackShape, ClashShape
  <1>13. doc.clash = self.clash /\ doc.xray.outbound = self.xray.outbound
    BY <1>1, <1>7 DEF rewriteSubscriptionRemarksInNode, StackShape, XrayShape
  <1>14. ups = old.clash.upstreams
    BY <1>2, <1>6
  <1> HIDE DEF ups
  <1>15. \A k \in DOMAIN ups : UpstreamShape(ups[k])
    BY <1>8 DEF UpstreamList
  <1>16. \A k \in DOMAIN ups :
            /\ new[k].type = ups[k].type
            /\ ups[k].type = "xray-socks5" => new[k].ref = RewriteRef(named, source, n, ups[k].ref)
    BY <1>9, <1>10, <1>15
  <1>17. IsList(doc.clash.upstreams) /\ DOMAIN doc.clash.upstreams = DOMAIN old.clash.upstreams
    BY <1>11, <1>12, <1>13, <1>14
  <1>18. \A k \in DOMAIN old.clash.upstreams :
            /\ doc.clash.upstreams[k].type = old.clash.upstreams[k].type
            /\ old.clash.upstreams[k].type = "xray-socks5" =>
                  doc.clash.upstreams[k].ref = RewriteRef(named, source, n, old.clash.upstreams[k].ref)
    BY <1>12, <1>13, <1>14, <1>16
  <1>19. /\ doc.xray.outbound.type = old.xray.outbound.type
         /\ old.xray.outbound.type = "clash" =>
               doc.xray.outbound.ref = RewriteRef(named, source, n, old.xray.outbound.ref)
    BY <1>2, <1>6, <1>12, <1>13 DEF ref
  <1> QED
    BY <1>17, <1>18, <1>19 DEF RefsOf, named

\* Rewriting turns the refs of a document into those of its clone.
RefsToClone(old, source, n) ==
    LET named == [old EXCEPT !.name = n]
    IN  /\ old.xray.outbound.type = "clash" =>
              RewriteRef(named, source, n, old.xray.outbound.ref)
                 = OfClone(old.xray.outbound.ref, source, n)
        /\ \A k \in DOMAIN old.clash.upstreams :
              old.clash.upstreams[k].type = "xray-socks5" =>
                 RewriteRef(named, source, n, old.clash.upstreams[k].ref)
                    = OfClone(old.clash.upstreams[k].ref, source, n)

\* In a set that loads, the refs of a stack that is on which name the stack itself are those that
\* its clone rewrites.
LEMMA SelfRefs ==
    ASSUME NEW c, NEW files, FilesShape(files), LoadsWith(c, files, {}), NEW source \in DOMAIN files,
           files[source].enabled, files[source].xray.enabled, files[source].clash.enabled, NEW n
    PROVE  RefsToClone(files[source], source, n)
  <1> DEFINE old == files[source]
             named == [old EXCEPT !.name = n]
             set == LoadedStacks(c, files)
             now == ResolveStackUserRefs(c, old)
             own == selfRefRewrites(named, source)
  <1>1. /\ \A s : s \in ToSet(set.stacks) <=> \E m \in DOMAIN files : s = ResolveStackUserRefs(c, files[m])
        /\ \A m \in DOMAIN files : ResolveStackUserRefs(c, files[m]).name = m
        /\ \A s, t \in ToSet(set.stacks) : s.name = t.name => s = t
        /\ ValidateStackSet(set, {})
    <2> HIDE DEF old, named, now, own
    <2>1. LET all == LoadedStacks(c, files)
          IN  /\ \A s : s \in ToSet(all.stacks) <=> \E m \in DOMAIN files : s = ResolveStackUserRefs(c, files[m])
              /\ \A m \in DOMAIN files : ResolveStackUserRefs(c, files[m]).name = m
              /\ \A s, t \in ToSet(all.stacks) : s.name = t.name => s = t
              /\ ValidateStackSet(all, {})
      BY LoadedFacts, SMTT(30)
    <2> QED
      BY <2>1
  <1>2. StackShape(old)
    BY DEF FilesShape
  <1> HIDE DEF old
  <1>3. /\ now.enabled = old.enabled /\ now.clash = old.clash
        /\ \A f \in DOMAIN old.xray \ {"inbounds"} : now.xray[f] = old.xray[f]
        /\ IsList(now.xray.inbounds) /\ Len(now.xray.inbounds) = Len(old.xray.inbounds)
        /\ \A k \in DOMAIN old.xray.inbounds :
              now.xray.inbounds[k] = ExpandInbound(c, old.xray.inbounds[k])
    BY <1>2, ResolveStackFacts
  <1>4. now \in ToSet(set.stacks) /\ now.name = source
    BY <1>1 DEF old
  <1>5. named.xray = old.xray /\ named.clash = old.clash
    BY <1>2 DEF StackShape
  <1> HIDE DEF named, set, now
  <1>6. now.xray.outbound = old.xray.outbound /\ now.xray.enabled = old.xray.enabled
    BY <1>2, <1>3 DEF StackShape, XrayShape
  <1>7. XrayOn(now) /\ ClashOn(now)
    BY <1>3, <1>6 DEF XrayOn, ClashOn, old
  <1>8. RefsResolve(set)
    BY <1>1 DEF ValidateStackSet, ValidReferenceGraph
  <1>9. own = {<<source, i.name>> : i \in ToSet(old.xray.inbounds)}
                 \cup (IF old.clash.listeners.socks # <<>> THEN {<<source, "clash", "socks">>} ELSE {})
                 \cup (IF old.clash.listeners.http # <<>> THEN {<<source, "clash", "http">>} ELSE {})
    BY <1>5 DEF selfRefRewrites
  <1>10. \A r \in own : r # <<>> /\ r[1] = source
    <2> TAKE r \in own
    <2>1. \/ \E i \in ToSet(old.xray.inbounds) : r = <<source, i.name>>
          \/ r = <<source, "clash", "socks">> \/ r = <<source, "clash", "http">>
      BY <1>9
    <2> QED
      BY <2>1
  <1>11. ASSUME NEW r, IsList(r), r # <<>> /\ r[1] = source => r \in own
         PROVE  RewriteRef(named, source, n, r) = OfClone(r, source, n)
    BY <1>10, <1>11 DEF RewriteRef, OfClone
  <1>12. \A i \in ToSet(now.xray.inbounds) : \E j \in ToSet(old.xray.inbounds) : i.name = j.name
    <2> TAKE i \in ToSet(now.xray.inbounds)
    <2>1. IsList(old.xray.inbounds) /\ \A k \in DOMAIN old.xray.inbounds : InboundShape(old.xray.inbounds[k])
      BY <1>2 DEF StackShape, XrayShape, ListOf
    <2>2. DOMAIN now.xray.inbounds = DOMAIN old.xray.inbounds
      BY <1>3, <2>1, ListShape
    <2>3. PICK k \in DOMAIN old.xray.inbounds : i = ExpandInbound(c, old.xray.inbounds[k])
      BY <1>3, <2>2 DEF ToSet
    <2>4. "name" \in InboundFields \ {"users", "user_refs", "expanded"}
      BY DEF InboundFields
    <2>5. i.name = old.xray.inbounds[k].name
      BY <2>1, <2>3, <2>4, ExpandFacts
    <2> QED
      BY <2>5 DEF ToSet
  <1>13. ASSUME old.xray.outbound.type = "clash"
         PROVE  RewriteRef(named, source, n, old.xray.outbound.ref) = OfClone(old.xray.outbound.ref, source, n)
    <2> DEFINE r == old.xray.outbound.ref
    <2>1. ValidateRef(r, 3) /\ r[2] = "clash" /\ r[3] = "socks" /\ ResolveClashListener(set, r) # {}
      BY <1>4, <1>6, <1>7, <1>8, <1>13 DEF RefsResolve, XrayRefResolves
    <2>2. IsList(r)
      BY <1>2 DEF StackShape, XrayShape
    <2>3. PICK e \in ClashListenerIndex(set) : e.ref = r
      BY <2>1 DEF ResolveClashListener
    <2>4. PICK t \in ToSet(set.stacks) : e \in IndexClashListeners(t)
      BY <2>3 DEF ClashListenerIndex
    <2>5. \/ e.ref = <<t.name, "clash", "socks">> /\ DOMAIN t.clash.listeners.socks # {}
          \/ e.ref = <<t.name, "clash", "http">>
      <3>1. \A kind, listeners : \A f \in IndexListeners(t, kind, listeners) :
                f.ref = <<t.name, "clash", kind>> /\ DOMAIN listeners # {}
        BY DEF IndexListeners
      <3> QED
        BY <2>4, <3>1 DEF IndexClashListeners
    <2>6. r = <<t.name, "clash", "socks">> /\ DOMAIN t.clash.listeners.socks # {}
      BY <2>1, <2>3, <2>5
    <2>7. r[1] = source => r \in own
      <3> SUFFICES ASSUME r[1] = source PROVE r \in own
        OBVIOUS
      <3>1. t = now
        BY <1>1, <1>4, <2>4, <2>6
      <3>2. old.clash.listeners.socks # <<>>
        BY <1>3, <2>6, <3>1
      <3> QED
        BY <1>9, <2>6, <3>2
    <2> QED
      BY <1>11, <2>2, <2>7
  <1>14. ASSUME NEW k \in DOMAIN old.clash.upstreams, old.clash.upstreams[k].type = "xray-socks5"
         PROVE  RewriteRef(named, source, n, old.clash.upstreams[k].ref)
                   = OfClone(old.clash.upstreams[k].ref, source, n)
    <2> DEFINE r == old.clash.upstreams[k].ref
    <2>1. r \in XraySocks5Refs(now)
      BY <1>3, <1>14 DEF XraySocks5Refs, ToSet
    <2>2. ClashRefsResolve(set, now)
      BY <1>4, <1>8 DEF RefsResolve
    <2>3. PICK e \in XrayInboundIndex(set) : e.ref = r
      BY <1>7, <2>1, <2>2 DEF ClashRefsResolve, ResolveXrayInbound
    <2>4. IsList(r)
      BY <1>2, ShapeLists DEF UpstreamList, UpstreamShape
    <2> HIDE DEF r
    <2>5. PICK t \in ToSet(set.stacks) : e \in IndexXrayInbounds(t)
      BY <2>3 DEF XrayInboundIndex
    <2>6. PICK i \in ToSet(t.xray.inbounds) : r = <<t.name, i.name>>
      BY <2>3, <2>5 DEF IndexXrayInbounds, ToSet
    <2>7. r[1] = source => r \in own
      <3> SUFFICES ASSUME r[1] = source PROVE r \in own
        OBVIOUS
      <3>1. t = now
        BY <1>1, <1>4, <2>5, <2>6
      <3>2. PICK j \in ToSet(old.xray.inbounds) : i.name = j.name
        BY <1>12, <3>1
      <3> QED
        BY <1>9, <2>6, <3>2
    <2> QED
      BY <1>11, <2>4, <2>7 DEF r
  <1> QED
    BY <1>13, <1>14 DEF RefsToClone, old, named

\* What stands where among the refs of a document.
LEMMA ReadRefsFacts ==
    ASSUME NEW doc, IsList(doc.clash.upstreams)
    PROVE  LET ups == doc.clash.upstreams
           IN  /\ DOMAIN ReadRefs(doc) = 1..(Len(ups) + 1)
               /\ doc.xray.outbound.type = "clash" => ReadRefs(doc)[1] = doc.xray.outbound.ref
               /\ doc.xray.outbound.type # "clash" => ReadRefs(doc)[1] = <<>>
               /\ \A k \in DOMAIN ups :
                     /\ ups[k].type = "xray-socks5" => ReadRefs(doc)[1 + k] = ups[k].ref
                     /\ ups[k].type # "xray-socks5" => ReadRefs(doc)[1 + k] = <<>>
  <1> DEFINE ups == doc.clash.upstreams
             first == IF doc.xray.outbound.type = "clash" THEN doc.xray.outbound.ref ELSE <<>>
             One(u) == IF u.type = "xray-socks5" THEN u.ref ELSE <<>>
             cells == [k \in DOMAIN ups |-> One(ups[k])]
  <1>1. ReadRefs(doc) = <<first>> \o (cells \o <<>>)
    BY DEF ReadRefs, Column
  <1>2. cells = [k \in DOMAIN ups |-> cells[k]] /\ \A k \in DOMAIN ups : cells[k] = One(ups[k])
    OBVIOUS
  <1>3. \A k \in DOMAIN ups : /\ ups[k].type = "xray-socks5" => One(ups[k]) = ups[k].ref
                              /\ ups[k].type # "xray-socks5" => One(ups[k]) = <<>>
    OBVIOUS
  <1>4. /\ doc.xray.outbound.type = "clash" => first = doc.xray.outbound.ref
        /\ doc.xray.outbound.type # "clash" => first = <<>>
    OBVIOUS
  <1>5. IsList(ups)
    OBVIOUS
  <1> HIDE DEF ups, first, One, cells
  <1>6. /\ cells \o <<>> = cells /\ IsList(cells) /\ DOMAIN cells = DOMAIN ups /\ Len(cells) = Len(ups)
        /\ DOMAIN ups = 1..Len(ups) /\ Len(ups) \in Nat
    BY <1>2, <1>5, ColumnFacts, ListShape
  <1>7. IsList(<<first>>) /\ Len(<<first>>) = 1 /\ <<first>>[1] = first
    BY SingletonList
  <1> DEFINE all == <<first>> \o cells
  <1>8. /\ IsList(all) /\ Len(all) = 1 + Len(ups) /\ all[1] = first
        /\ \A k \in DOMAIN ups : all[1 + k] = cells[k]
    BY <1>6, <1>7, ListConcat
  <1>9. DOMAIN all = 1..(Len(ups) + 1)
    BY <1>6, <1>8, ListShape
  <1>10. ReadRefs(doc) = all
    BY <1>1, <1>6
  <1> HIDE DEF all
  <1> QED
    BY <1>2, <1>3, <1>4, <1>8, <1>9, <1>10 DEF ups

\* In every base directory that loads, a clone refers to itself where its source does, and to no
\* other stack than its source elsewhere.
THEOREM ClonesStandAlone == Spec => []CloneStandsAlone
  <1>1. ASSUME Documents PROVE CloneStandsAlone
    <2> SUFFICES ASSUME NEW set \in loadConfigAndStacks, NEW n \in StackNames,
                        NEW source \in DOMAIN stacks.files,
                        stacks.files[source].enabled, stacks.files[source].xray.enabled,
                        stacks.files[source].clash.enabled,
                        NEW doc \in CloneCandidates(set, stacks.files[source], source, n, FALSE),
                        NEW k \in DOMAIN ReadRefs(doc)
                 PROVE  ReadRefs(doc)[k] = OfClone(ReadRefs(stacks.files[source])[k], source, n)
      BY DEF CloneStandsAlone
    <2> DEFINE old == stacks.files[source]
               named == [old EXCEPT !.name = n]
               was == old.clash.upstreams
               is == doc.clash.upstreams
    <2>1. FilesShape(stacks.files) /\ StackShape(old)
      BY <1>1 DEF Documents, DirShape, NamedFiles, FilesShape
    <2>2. PICK c \in ToSet(config) : LoadsWith(c, stacks.files, {})
      BY DEF loadConfigAndStacks
    <2>3. /\ doc.xray.outbound.type = old.xray.outbound.type
          /\ old.xray.outbound.type = "clash" =>
                doc.xray.outbound.ref = RewriteRef(named, source, n, old.xray.outbound.ref)
          /\ IsList(is) /\ DOMAIN is = DOMAIN was
          /\ \A i \in DOMAIN was :
                /\ is[i].type = was[i].type
                /\ was[i].type = "xray-socks5" => is[i].ref = RewriteRef(named, source, n, was[i].ref)
      <3>1. RefsOf(doc, stacks.files[source], source, n)
        <4> HIDE DEF old, named, was, is
        <4>1. StackShape(stacks.files[source])
          BY <2>1 DEF old
        <4> QED
          BY <4>1, CloneRefs
      <3> QED
        BY <3>1 DEF RefsOf
    <2>4. /\ old.xray.outbound.type = "clash" =>
                RewriteRef(named, source, n, old.xray.outbound.ref)
                   = OfClone(old.xray.outbound.ref, source, n)
          /\ \A i \in DOMAIN was : was[i].type = "xray-socks5" =>
                RewriteRef(named, source, n, was[i].ref) = OfClone(was[i].ref, source, n)
      <3>1. RefsToClone(stacks.files[source], source, n)
        <4> HIDE DEF old, named, was, is
        <4> QED
          BY <2>1, <2>2, SelfRefs
      <3> QED
        BY <3>1 DEF RefsToClone
    <2>5. IsList(was)
      BY <2>1, ShapeLists DEF UpstreamList
    <2>6. OfClone(<<>>, source, n) = <<>>
      BY DEF OfClone
    <2> HIDE DEF named
    <2>7. /\ DOMAIN ReadRefs(doc) = 1..(Len(is) + 1)
          /\ doc.xray.outbound.type = "clash" => ReadRefs(doc)[1] = doc.xray.outbound.ref
          /\ doc.xray.outbound.type # "clash" => ReadRefs(doc)[1] = <<>>
          /\ \A i \in DOMAIN is : /\ is[i].type = "xray-socks5" => ReadRefs(doc)[1 + i] = is[i].ref
                                  /\ is[i].type # "xray-socks5" => ReadRefs(doc)[1 + i] = <<>>
      BY <2>3, ReadRefsFacts
    <2>8. /\ old.xray.outbound.type = "clash" => ReadRefs(old)[1] = old.xray.outbound.ref
          /\ old.xray.outbound.type # "clash" => ReadRefs(old)[1] = <<>>
          /\ \A i \in DOMAIN was : /\ was[i].type = "xray-socks5" => ReadRefs(old)[1 + i] = was[i].ref
                                   /\ was[i].type # "xray-socks5" => ReadRefs(old)[1 + i] = <<>>
      BY <2>5, ReadRefsFacts
    <2>9. DOMAIN is = 1..Len(is) /\ Len(is) \in Nat
      BY <2>3, ListShape
    <2>10. CASE k = 1
      BY <2>3, <2>4, <2>6, <2>7, <2>8, <2>10
    <2>11. ASSUME NEW i \in DOMAIN is, k = 1 + i
           PROVE  ReadRefs(doc)[k] = OfClone(ReadRefs(old)[k], source, n)
      <3>1. i \in DOMAIN was
        BY <2>3
      <3>2. CASE was[i].type = "xray-socks5"
        BY <2>3, <2>4, <2>7, <2>8, <2>11, <3>1, <3>2
      <3>3. CASE was[i].type # "xray-socks5"
        BY <2>3, <2>6, <2>7, <2>8, <2>11, <3>1, <3>3
      <3> QED
        BY <3>2, <3>3
    <2>12. k = 1 \/ \E i \in DOMAIN is : k = 1 + i
      <3>1. k = 1 \/ k - 1 \in 1..Len(is)
        BY <2>7, <2>9
      <3> QED
        BY <2>9, <3>1
    <2> QED
      BY <2>10, <2>11, <2>12
  <1> QED
    BY <1>1, DocumentsAlways, PTL

(***************************************************************************)
(* Ports that are allocated.                                               *)
(***************************************************************************)

\* So many ports, no two of them the same, none of them used.
Drawn(ports, count, used) ==
    IsList(ports) /\ Len(ports) = count /\ ensureUnique(ports) /\ ToSet(ports) \cap used = {}

\* The ports of a range that are free are in their order, each once.
LEMMA FreePorts ==
    ASSUME NEW r, ValidatePortRange(r), NEW used
    PROVE  LET free == Keep([i \in 1..(r.end - r.start + 1) |-> r.start + i - 1],
                            LAMBDA port : port \notin used)
           IN  IsList(free) /\ ensureUnique(free) /\ ToSet(free) \cap used = {}
  <1> DEFINE n == r.end - r.start + 1
             all == [i \in 1..n |-> r.start + i - 1]
             rows == [k \in DOMAIN all |-> IF all[k] \notin used THEN <<all[k]>> ELSE <<>>]
             key == [port \in ToSet(all) |-> port]
             free == FlattenSeq(rows)
  <1>1. r.start \in Nat /\ n \in Nat
    BY PortAssumption DEF ValidatePortRange, ValidatePort
  <1>2. /\ all = [k \in 1..n |-> all[k]] /\ DOMAIN all = 1..n
        /\ \A j, k \in 1..n : all[j] = all[k] => j = k
    BY <1>1
  <1>3. Keep(all, LAMBDA port : port \notin used) = free
    BY DEF Keep
  <1>4. /\ rows = [k \in DOMAIN all |-> rows[k]]
        /\ \A k \in DOMAIN all : rows[k] \in {<<>>, <<all[k]>>}
        /\ \A k \in DOMAIN all : rows[k] # <<>> => all[k] \notin used
    OBVIOUS
  <1> HIDE DEF n, rows, all
  <1>5. IsList(all)
    BY <1>1, <1>2, FunctionIsList
  <1>6. /\ IsList(free)
        /\ \A e : e \in ToSet(free) <=> \E k \in DOMAIN all : rows[k] # <<>> /\ e = all[k]
        /\ \A f : DistinctRow(all, f) => DistinctRow(free, f)
    BY <1>4, <1>5, KeepFacts
  <1>7. \A k \in DOMAIN all : all[k] \in ToSet(all) /\ key[all[k]] = all[k]
    BY DEF ToSet
  <1>8. DistinctRow(all, key)
    BY <1>2, <1>7 DEF DistinctRow
  <1>9. DistinctRow(free, key)
    BY <1>6, <1>8
  <1>10. \A k \in DOMAIN free : free[k] \in ToSet(free)
    BY DEF ToSet
  <1>11. \A k \in DOMAIN free : key[free[k]] = free[k]
    BY <1>6, <1>7, <1>10
  <1> HIDE DEF free, key
  <1>12. ensureUnique(free)
    BY <1>9, <1>11 DEF DistinctRow, ensureUnique
  <1>13. ToSet(free) \cap used = {}
    BY <1>4, <1>6
  <1> QED
    BY <1>3, <1>6, <1>12, <1>13 DEF all, n

\* PortRange.Allocate hands out ports that are free.
LEMMA AllocateDraws ==
    ASSUME NEW r, ValidatePortRange(r), NEW used, NEW count \in Nat, NEW ports \in Allocate(r, used, count)
    PROVE  Drawn(ports, count, used)
  <1> DEFINE free == Keep([i \in 1..(r.end - r.start + 1) |-> r.start + i - 1],
                          LAMBDA port : port \notin used)
  <1>1. IsList(free) /\ ensureUnique(free) /\ ToSet(free) \cap used = {}
    BY FreePorts
  <1>2. ports = SubSeq(free, 1, count) /\ count <= Len(free)
    BY DEF Allocate
  <1> HIDE DEF free
  <1>3. Len(free) \in Nat /\ DOMAIN free = 1..Len(free) /\ free \in Seq(ToSet(free))
    BY <1>1, ListShape DEF IsList
  <1>4. ports = [m \in 1..count |-> free[m]]
    BY <1>2, <1>3
  <1>5. ports = [m \in 1..count |-> ports[m]] /\ \A m \in 1..count : ports[m] = free[m] /\ m \in DOMAIN free
    BY <1>2, <1>3, <1>4
  <1>6. IsList(ports) /\ Len(ports) = count /\ DOMAIN ports = 1..count
    BY <1>5, FunctionIsList
  <1>7. ensureUnique(ports)
    BY <1>1, <1>5, <1>6 DEF ensureUnique
  <1>8. ToSet(ports) \cap used = {}
    BY <1>1, <1>5, <1>6 DEF ToSet
  <1> QED
    BY <1>6, <1>7, <1>8 DEF Drawn

\* What was taken after the ranges done: as many ports as were asked for, each only once.
TakenSoFar(t, done, used, requests) ==
    /\ DOMAIN t = DOMAIN requests
    /\ \A r \in DOMAIN requests : Drawn(t[r], IF r \in done THEN requests[r] ELSE 0, used)
    /\ \A q, r \in DOMAIN requests : q # r => ToSet(t[q]) \cap ToSet(t[r]) = {}
AllTaken(taken, done, used, requests) ==
    \A t \in taken : TakenSoFar(t, done, used, requests)

\* Before the first range nothing is taken.
LEMMA NothingTaken ==
    ASSUME NEW used, NEW requests
    PROVE  AllTaken({[range \in DOMAIN requests |-> <<>>]}, {}, used, requests)
  <1>1. IsList(<<>>) /\ ToSet(<<>>) = {} /\ Len(<<>>) = 0 /\ DOMAIN <<>> = {}
    BY EmptySeq DEF IsList, ToSet
  <1>2. Drawn(<<>>, 0, used)
    BY <1>1 DEF Drawn, ensureUnique
  <1> DEFINE t == [range \in DOMAIN requests |-> <<>>]
  <1>3. TakenSoFar(t, {}, used, requests)
    BY <1>1, <1>2 DEF TakenSoFar
  <1> HIDE DEF t
  <1> QED
    BY <1>3 DEF AllTaken, t

\* Each range adds ports that no list before it has.
LEMMA RangeTaken ==
    ASSUME NEW taken, NEW done, NEW ranges, NEW used, NEW requests, AllTaken(taken, done, used, requests),
           NEW range \in DOMAIN requests, range \notin done, requests[range] \in Nat,
           ValidatePortRange(ranges[range])
    PROVE  AllTaken(TakePorts(taken, range, ranges, used, requests), done \cup {range}, used, requests)
  <1> SUFFICES ASSUME NEW t \in TakePorts(taken, range, ranges, used, requests)
               PROVE  TakenSoFar(t, done \cup {range}, used, requests)
    BY DEF AllTaken
  <1>1. CASE requests[range] = 0
    <2>1. TakenSoFar(t, done, used, requests)
      BY <1>1 DEF TakePorts, AllTaken
    <2> QED
      BY <1>1, <2>1 DEF TakenSoFar
  <1>2. CASE requests[range] # 0
    <2>0. PICK u \in taken :
              \E p \in Allocate(ranges[range], used \cup TakenPorts(u), requests[range]) :
                  t = [u EXCEPT ![range] = p]
      BY <1>2 DEF TakePorts
    <2>1. PICK ports \in Allocate(ranges[range], used \cup TakenPorts(u), requests[range]) :
              t = [u EXCEPT ![range] = ports]
      BY <2>0
    <2>2. TakenSoFar(u, done, used, requests)
      BY DEF AllTaken
    <2>3. Drawn(ports, requests[range], used \cup TakenPorts(u))
      BY AllocateDraws
    <2>4. Drawn(ports, requests[range], used)
      BY <2>3 DEF Drawn
    <2>5. DOMAIN t = DOMAIN requests /\ t[range] = ports
          /\ \A r \in DOMAIN requests : r # range => t[r] = u[r]
      BY <2>1, <2>2 DEF TakenSoFar
    <2>6. \A r \in DOMAIN requests : ToSet(u[r]) \cap ToSet(ports) = {}
      BY <2>2, <2>3 DEF Drawn, TakenPorts, TakenSoFar
    <2>7. \A r \in DOMAIN requests :
              Drawn(t[r], IF r \in done \cup {range} THEN requests[r] ELSE 0, used)
      BY <2>2, <2>4, <2>5 DEF TakenSoFar
    <2>8. \A q, r \in DOMAIN requests : q # r => ToSet(t[q]) \cap ToSet(t[r]) = {}
      BY <2>2, <2>5, <2>6 DEF TakenSoFar
    <2> QED
      BY <2>5, <2>7, <2>8 DEF TakenSoFar
  <1> QED
    BY <1>1, <1>2

\* The ports of a document, drawn from ranges that are valid.
LEMMA PortsTaken ==
    ASSUME NEW doc, StackShape(doc), NEW set, ConfigShape(set.config), ValidateConfig(set.config),
           NEW t \in Taken(doc, set)
    PROVE  TakenSoFar(t, PortRangeNames, usedPorts(set), PortRequests(doc))
  <1> DEFINE ranges == set.config.port_ranges
             used == usedPorts(set)
             requests == PortRequests(doc)
             Take(taken, range) == TakePorts(taken, range, ranges, used, requests)
             t0 == {[range \in DOMAIN requests |-> <<>>]}
             t1 == Take(t0, "xray_inbound")
             t2 == Take(t1, "xray_api_range")
             t3 == Take(t2, "clash_socks")
             t4 == Take(t3, "clash_http")
             t5 == Take(t4, "clash_controller")
             d1 == {} \cup {"xray_inbound"}
             d2 == d1 \cup {"xray_api_range"}
             d3 == d2 \cup {"clash_socks"}
             d4 == d3 \cup {"clash_http"}
             d5 == d4 \cup {"clash_controller"}
  <1>1. Taken(doc, set) = t5
    BY DEF Taken, AllocatePorts
  <1>2. DOMAIN requests = PortRangeNames
    BY DEF PortRequests, PortRangeNames
  <1>3. \A r \in PortRangeNames : requests[r] \in Nat
    <2>1. /\ IsList(doc.xray.inbounds) /\ IsList(doc.clash.listeners.socks)
          /\ IsList(doc.clash.listeners.http)
      BY ShapeLists DEF InboundList, ListenerList
    <2>2. /\ Len(doc.xray.inbounds) \in Nat /\ Len(doc.clash.listeners.socks) \in Nat
          /\ Len(doc.clash.listeners.http) \in Nat
      BY <2>1, ListShape
    <2> QED
      BY <2>2 DEF PortRequests, PortRangeNames
  <1>4. \A r \in PortRangeNames : ValidatePortRange(ranges[r])
    BY DEF ConfigShape, ValidateConfig, ValidatePortRanges
  <1>5. /\ "xray_inbound" \in PortRangeNames /\ "xray_api_range" \in PortRangeNames
        /\ "clash_socks" \in PortRangeNames /\ "clash_http" \in PortRangeNames
        /\ "clash_controller" \in PortRangeNames
        /\ "xray_inbound" \notin {} /\ "xray_api_range" \notin d1 /\ "clash_socks" \notin d2
        /\ "clash_http" \notin d3 /\ "clash_controller" \notin d4 /\ d5 = PortRangeNames
    BY DEF PortRangeNames
  <1> HIDE DEF ranges, used, requests
  <1>6. AllTaken(t0, {}, used, requests)
    BY NothingTaken
  <1> HIDE DEF t0
  <1>7. AllTaken(t1, d1, used, requests)
    BY <1>2, <1>3, <1>4, <1>5, <1>6, RangeTaken
  <1> HIDE DEF t1, d1
  <1>8. AllTaken(t2, d2, used, requests)
    BY <1>2, <1>3, <1>4, <1>5, <1>7, RangeTaken
  <1> HIDE DEF t2, d2
  <1>9. AllTaken(t3, d3, used, requests)
    BY <1>2, <1>3, <1>4, <1>5, <1>8, RangeTaken
  <1> HIDE DEF t3, d3
  <1>10. AllTaken(t4, d4, used, requests)
    BY <1>2, <1>3, <1>4, <1>5, <1>9, RangeTaken
  <1> HIDE DEF t4, d4
  <1>11. AllTaken(t5, d5, used, requests)
    BY <1>2, <1>3, <1>4, <1>5, <1>10, RangeTaken
  <1> HIDE DEF t5, d5
  <1> QED
    BY <1>1, <1>5, <1>11 DEF AllTaken, used, requests

\* Addresses whose ports are distinct and lie in S.
Bound(b, S) ==
    /\ IsList(b) /\ \A k \in DOMAIN b : b[k][2] \in S
    /\ \A j, k \in DOMAIN b : b[j][2] = b[k][2] => j = k

\* No address, one address, and those of two lists.
LEMMA BoundNone ==
    ASSUME NEW S PROVE Bound(<<>>, S)
  <1>1. IsList(<<>>) /\ DOMAIN <<>> = {}
    BY EmptySeq DEF IsList, ToSet
  <1> QED
    BY <1>1 DEF Bound

\* A list of one binding has its port,
LEMMA BoundOne ==
    ASSUME NEW S, NEW e, e[2] \in S PROVE Bound(<<e>>, S)
  <1>1. IsList(<<e>>) /\ DOMAIN <<e>> = 1..1 /\ <<e>>[1] = e
    BY SingletonList
  <1> QED
    BY <1>1 DEF Bound

\* and two lists one after the other have the ports of both.
LEMMA BoundConcat ==
    ASSUME NEW S, NEW T, S \cap T = {}, NEW x, NEW y, Bound(x, S), Bound(y, T)
    PROVE  Bound(x \o y, S \cup T)
  <1> DEFINE L == Len(x)
             M == Len(y)
             both == x \o y
  <1>1. L \in Nat /\ M \in Nat /\ DOMAIN x = 1..L /\ DOMAIN y = 1..M
    BY ListShape DEF Bound
  <1>2. /\ IsList(both) /\ Len(both) = L + M
        /\ \A i \in 1..L : both[i] = x[i]
        /\ \A i \in 1..M : both[L + i] = y[i]
    BY ListConcat DEF Bound
  <1>3. DOMAIN both = 1..(L + M)
    BY <1>2, ListShape
  <1> HIDE DEF L, M, both
  <1>4. ASSUME NEW k \in 1..(L + M)
        PROVE  \/ k \in 1..L /\ both[k] = x[k]
               \/ k - L \in 1..M /\ both[k] = y[k - L]
    <2>1. CASE k <= L
      BY <1>1, <1>2, <2>1
    <2>2. CASE k > L
      <3>1. k - L \in 1..M /\ L + (k - L) = k
        BY <1>1, <2>2
      <3> QED
        BY <1>2, <3>1
    <2> QED
      BY <1>1, <2>1, <2>2
  <1>5. \A k \in DOMAIN both : both[k][2] \in S \cup T
    BY <1>1, <1>3, <1>4 DEF Bound
  <1>6. ASSUME NEW j \in DOMAIN both, NEW k \in DOMAIN both, both[j][2] = both[k][2]
        PROVE  j = k
    <2>1. CASE j \in 1..L /\ both[j] = x[j] /\ k \in 1..L /\ both[k] = x[k]
      BY <1>1, <1>6, <2>1 DEF Bound
    <2>2. CASE j - L \in 1..M /\ both[j] = y[j - L] /\ k - L \in 1..M /\ both[k] = y[k - L]
      <3>1. j - L = k - L
        BY <1>1, <1>6, <2>2 DEF Bound
      <3> QED
        BY <1>1, <1>3, <3>1
    <2>3. \A u \in 1..L, v \in 1..M : x[u][2] # y[v][2]
      BY <1>1 DEF Bound
    <2> QED
      BY <1>3, <1>4, <1>6, <2>1, <2>2, <2>3
  <1> QED
    BY <1>2, <1>5, <1>6 DEF Bound, both

\* The addresses of inbounds or listeners with the ports they were given.
LEMMA BoundList ==
    ASSUME NEW list, IsList(list), \A k \in DOMAIN list : {"port"} \subseteq DOMAIN list[k],
           NEW ports, NEW used, Drawn(ports, Len(list), used)
    PROVE  Bound(Column(WithPorts(list, ports), LAMBDA l : <<l.listen, l.port>>), ToSet(ports))
  <1> DEFINE new == [k \in DOMAIN list |-> [list[k] EXCEPT !.port = ports[k]]]
             at == [k \in DOMAIN new |-> <<new[k].listen, new[k].port>>]
  <1>1. WithPorts(list, ports) = new \o <<>>
    BY DEF WithPorts
  <1>2. new = [k \in DOMAIN list |-> new[k]] /\ \A k \in DOMAIN list : new[k].port = ports[k]
    OBVIOUS
  <1>3. at = [k \in DOMAIN new |-> at[k]] /\ \A k \in DOMAIN new : at[k][2] = new[k].port
    OBVIOUS
  <1> HIDE DEF new
  <1>4. new \o <<>> = new /\ IsList(new) /\ DOMAIN new = DOMAIN list
    BY <1>2, ColumnFacts
  <1>5. Column(WithPorts(list, ports), LAMBDA l : <<l.listen, l.port>>) = at \o <<>>
    BY <1>1, <1>4 DEF Column
  <1> HIDE DEF at
  <1>6. at \o <<>> = at /\ IsList(at) /\ DOMAIN at = DOMAIN new
    BY <1>3, <1>4, ColumnFacts
  <1>7. DOMAIN list = 1..Len(list) /\ DOMAIN ports = 1..Len(ports)
    BY ListShape DEF Drawn
  <1>8. DOMAIN ports = DOMAIN list
    BY <1>7 DEF Drawn
  <1>9. \A k \in DOMAIN at : at[k][2] = ports[k] /\ k \in DOMAIN ports
    BY <1>2, <1>3, <1>4, <1>6, <1>8
  <1>10. Bound(at, ToSet(ports))
    BY <1>6, <1>9 DEF Bound, Drawn, ensureUnique, ToSet
  <1> QED
    BY <1>5, <1>6, <1>10

\* The Xray half of the sockets of a document with allocated ports,
LEMMA XrayBound ==
    ASSUME NEW doc, StackShape(doc), OwnAPI(doc), NEW s, ConfigShape(s.config), NEW used, NEW t,
           TakenSoFar(t, PortRangeNames, used, PortRequests(doc)), NEW on, on.xray = XrayWith(doc, t)
    PROVE  Bound(XrayBindings(s, on), ToSet(t.xray_inbound) \cup ToSet(t.xray_api_range))
  <1> DEFINE list == doc.xray.inbounds
             ports == t.xray_inbound
             port == t.xray_api_range[1]
             own == APIAt(doc.xray.api, port)
             api == ResolveXrayAPIConfig(s.config.defaults, on.xray)
             aEnd == IF api.enabled /\ ParseListen(api.listen) THEN <<api.listen>> ELSE <<>>
             row == Column(WithPorts(list, ports), LAMBDA i : <<i.listen, i.port>>)
  <1>1. /\ Drawn(ports, Len(list), used) /\ Drawn(t.xray_api_range, 1, used)
        /\ ToSet(ports) \cap ToSet(t.xray_api_range) = {}
    BY DEF TakenSoFar, PortRequests, PortRangeNames
  <1>2. on.xray.inbounds = WithPorts(list, ports) /\ on.xray.api = own
    BY DEF XrayWith, StackShape, XrayShape
  <1>3. XrayBindings(s, on) = IF ~XrayOn(on) THEN <<>> ELSE row \o aEnd
    BY <1>2 DEF XrayBindings
  <1>4. Bound(row, ToSet(ports))
    <2>1. IsList(list) /\ \A k \in DOMAIN list : {"port"} \subseteq DOMAIN list[k]
      BY ShapeLists DEF InboundList, InboundShape, InboundFields
    <2> HIDE DEF list, ports
    <2> QED
      BY <1>1, <2>1, BoundList
  <1>5. api.listen[2] = port
    <2>1. "listen" \in DOMAIN own /\ own["listen"][2] = port
      BY DEF APIAt, Put
    <2>2. "listen" \in DOMAIN s.config.defaults.api
      BY DEF ConfigShape
    <2> HIDE DEF own
    <2> QED
      BY <1>2, <2>1, <2>2 DEF ResolveXrayAPIConfig, Overlay
  <1>6. port \in ToSet(t.xray_api_range)
    <2>1. DOMAIN t.xray_api_range = 1..1
      BY <1>1, ListShape DEF Drawn
    <2> QED
      BY <2>1 DEF ToSet
  <1>7. Bound(aEnd, ToSet(t.xray_api_range))
    <2> HIDE DEF api, port
    <2> QED
      BY <1>5, <1>6, BoundNone, BoundOne
  <1> HIDE DEF aEnd, row
  <1>8. Bound(row \o aEnd, ToSet(ports) \cup ToSet(t.xray_api_range))
    BY <1>1, <1>4, <1>7, BoundConcat
  <1> QED
    BY <1>3, <1>8, BoundNone

\* and the mihomo half.
LEMMA ClashBound ==
    ASSUME NEW doc, StackShape(doc), NEW used, NEW t,
           TakenSoFar(t, PortRangeNames, used, PortRequests(doc)), NEW on, on.clash = ClashWith(doc, t)
    PROVE  Bound(ClashBindings(on),
                 (ToSet(t.clash_socks) \cup ToSet(t.clash_http)) \cup ToSet(t.clash_controller))
  <1> DEFINE socks == doc.clash.listeners.socks
             http == doc.clash.listeners.http
             port == t.clash_controller[1]
             listen == on.clash.controller.listen
             cEnd == IF ParseListen(listen) THEN <<listen>> ELSE <<>>
             x == Column(WithPorts(socks, t.clash_socks), LAMBDA l : <<l.listen, l.port>>)
             y == Column(WithPorts(http, t.clash_http), LAMBDA l : <<l.listen, l.port>>)
             X == ToSet(t.clash_socks)
             Y == ToSet(t.clash_http)
             Z == ToSet(t.clash_controller)
  <1>1. /\ Drawn(t.clash_socks, Len(socks), used) /\ Drawn(t.clash_http, Len(http), used)
        /\ Drawn(t.clash_controller, 1, used)
        /\ X \cap Y = {} /\ X \cap Z = {} /\ Y \cap Z = {}
    BY DEF TakenSoFar, PortRequests, PortRangeNames
  <1>2. /\ on.clash.listeners.socks = WithPorts(socks, t.clash_socks)
        /\ on.clash.listeners.http = WithPorts(http, t.clash_http)
        /\ listen[2] = port
    <2> DEFINE c == doc.clash
               ls == [c.listeners EXCEPT !.socks = WithPorts(c.listeners.socks, t.clash_socks),
                                         !.http = WithPorts(c.listeners.http, t.clash_http)]
               at == [c.controller.listen EXCEPT ![2] = t.clash_controller[1]]
               ctl == [c.controller EXCEPT !.listen = at]
    <2>1. /\ {"listeners", "controller"} \subseteq DOMAIN c /\ {"socks", "http"} \subseteq DOMAIN c.listeners
          /\ "listen" \in DOMAIN c.controller /\ 2 \in DOMAIN c.controller.listen
      BY DEF StackShape, ClashShape
    <2>2. on.clash = [c EXCEPT !.listeners = ls, !.controller = ctl]
      BY DEF ClashWith
    <2>3. /\ ls.socks = WithPorts(socks, t.clash_socks) /\ ls.http = WithPorts(http, t.clash_http)
          /\ ctl.listen = at /\ at[2] = port
      BY <2>1
    <2> HIDE DEF ls, ctl, at, c, port, socks, http
    <2>4. on.clash.listeners = ls /\ on.clash.controller = ctl
      BY <2>1, <2>2
    <2> QED
      BY <2>3, <2>4
  <1>3. ClashBindings(on) = IF ~ClashOn(on) THEN <<>> ELSE (x \o y) \o cEnd
    BY <1>2 DEF ClashBindings
  <1>4. /\ IsList(socks) /\ \A k \in DOMAIN socks : {"port"} \subseteq DOMAIN socks[k]
        /\ IsList(http) /\ \A k \in DOMAIN http : {"port"} \subseteq DOMAIN http[k]
    BY ShapeLists DEF ListenerList, ListenerShape
  <1> HIDE DEF socks, http
  <1>5. Bound(x, X) /\ Bound(y, Y)
    BY <1>1, <1>4, BoundList
  <1>6. port \in Z
    <2>1. DOMAIN t.clash_controller = 1..1
      BY <1>1, ListShape DEF Drawn
    <2> QED
      BY <2>1 DEF ToSet
  <1>7. Bound(cEnd, Z)
    <2> HIDE DEF listen, port, Z
    <2> QED
      BY <1>2, <1>6, BoundNone, BoundOne
  <1> HIDE DEF x, y, cEnd, X, Y, Z
  <1>8. Bound(x \o y, X \cup Y)
    BY <1>1, <1>5, BoundConcat
  <1>9. (X \cup Y) \cap Z = {}
    BY <1>1
  <1>10. Bound((x \o y) \o cEnd, (X \cup Y) \cup Z)
    BY <1>7, <1>8, <1>9, BoundConcat
  <1> QED
    BY <1>3, <1>10, BoundNone DEF X, Y, Z

\* All its sockets: distinct ports, none of them used.
LEMMA RowBound ==
    ASSUME NEW doc, StackShape(doc), OwnAPI(doc), NEW set, ConfigShape(set.config),
           ValidateConfig(set.config), NEW new \in allocateStackDocumentPorts(doc, set),
           NEW s, s.config = set.config
    PROVE  LET on == [new EXCEPT !.enabled = TRUE]
           IN  \E S : S \cap usedPorts(set) = {} /\ Bound(SocketRow(s, on), S)
  <1> DEFINE on == [new EXCEPT !.enabled = TRUE]
  <1>1. PICK t \in Taken(doc, set) :
            new = [doc EXCEPT !.xray = XrayWith(doc, t), !.clash = ClashWith(doc, t)]
    BY AllocatedAs
  <1>2. TakenSoFar(t, PortRangeNames, usedPorts(set), PortRequests(doc))
    BY PortsTaken
  <1>3. on.xray = XrayWith(doc, t) /\ on.clash = ClashWith(doc, t)
    BY <1>1 DEF StackShape
  <1> HIDE DEF on
  <1> DEFINE A == ToSet(t.xray_inbound) \cup ToSet(t.xray_api_range)
             B == (ToSet(t.clash_socks) \cup ToSet(t.clash_http)) \cup ToSet(t.clash_controller)
  <1>4. Bound(XrayBindings(s, on), A)
    BY <1>2, <1>3, XrayBound
  <1>5. Bound(ClashBindings(on), B)
    BY <1>2, <1>3, ClashBound
  <1>6. A \cap B = {} /\ (A \cup B) \cap usedPorts(set) = {}
    BY <1>2 DEF TakenSoFar, Drawn, PortRequests, PortRangeNames
  <1> HIDE DEF A, B
  <1>7. Bound(SocketRow(s, on), A \cup B)
    BY <1>4, <1>5, <1>6, BoundConcat DEF SocketRow
  <1> QED
    BY <1>6, <1>7 DEF on

\* The sockets of a set of one stack are those of the stack.
LEMMA SingleStack ==
    ASSUME NEW s, NEW on, s.stacks = <<on>>, NEW S, NEW used, S \cap used = {},
           Bound(SocketRow(s, on), S)
    PROVE  LET ports == Column(CollectPortBindings(s), LAMBDA b : b[2])
           IN  ensureUnique(ports) /\ ToSet(ports) \cap used = {}
  <1> DEFINE row == SocketRow(s, on)
             cells == [j \in DOMAIN s.stacks |-> SocketRow(s, s.stacks[j])]
             all == CollectPortBindings(s)
             key == [b \in ToSet(row) |-> b[2]]
  <1>1. CollectPortBindings(s) = FlattenSeq(cells \o <<>>)
    BY DEF CollectPortBindings, Column, SocketRow
  <1>2. IsList(s.stacks) /\ DOMAIN s.stacks = 1..1 /\ s.stacks[1] = on
    BY SingletonList
  <1>3. cells = [j \in DOMAIN s.stacks |-> cells[j]] /\ cells[1] = row
    BY <1>2
  <1> HIDE DEF cells
  <1>4. cells \o <<>> = cells /\ IsList(cells) /\ DOMAIN cells = 1..1
    BY <1>2, <1>3, ColumnFacts
  <1>5. IsTable(cells)
    BY <1>3, <1>4 DEF IsTable, Bound
  <1>6. all = FlattenSeq(cells)
    BY <1>1, <1>4
  <1> HIDE DEF all, row
  <1>7. IsList(all) /\ ToSet(all) = ToSet(row)
    <2>1. IsList(FlattenSeq(cells))
      BY <1>5, FlattenPlaces
    <2>2. \A e : e \in ToSet(FlattenSeq(cells)) <=> \E i \in DOMAIN cells : e \in ToSet(cells[i])
      BY <1>5, FlattenElements
    <2>3. \A e : (\E i \in DOMAIN cells : e \in ToSet(cells[i])) <=> e \in ToSet(row)
      BY <1>3, <1>4
    <2> QED
      BY <1>6, <2>1, <2>2, <2>3
  <1>8. /\ \A b \in ToSet(row) : key[b] = b[2]
        /\ \A k \in DOMAIN row : row[k] \in ToSet(row)
        /\ \A k \in DOMAIN all : all[k] \in ToSet(all)
    BY DEF ToSet
  <1> HIDE DEF key
  <1>9. DistinctCells(cells, key)
    BY <1>3, <1>4, <1>8 DEF DistinctCells, Bound, row
  <1>10. DistinctRow(all, key)
    BY <1>5, <1>6, <1>9, FlattenDistinct
  <1> DEFINE ports == [k \in DOMAIN all |-> all[k][2]]
  <1>11. Column(all, LAMBDA b : b[2]) = ports \o <<>>
    BY DEF Column
  <1>12. ports = [k \in DOMAIN all |-> ports[k]] /\ \A k \in DOMAIN all : ports[k] = all[k][2]
    OBVIOUS
  <1> HIDE DEF ports
  <1>13. ports \o <<>> = ports /\ DOMAIN ports = DOMAIN all
    BY <1>7, <1>12, ColumnFacts
  <1>14. ensureUnique(ports)
    BY <1>7, <1>8, <1>10, <1>12, <1>13 DEF ensureUnique, DistinctRow
  <1>15. \A b \in ToSet(row) : b[2] \in S
    BY DEF Bound, ToSet, row
  <1>16. ToSet(ports) \cap used = {}
    BY <1>7, <1>8, <1>12, <1>13, <1>15 DEF ToSet
  <1> QED
    BY <1>11, <1>13, <1>14, <1>16 DEF all

\* What names, refs, remarks, profiles and members change leaves the API section alone.
SameAPI(new, doc) == new.xray.api = doc.xray.api

\* Rewriting references leaves the API section alone.
LEMMA RewrittenAPI ==
    ASSUME NEW doc, StackShape(doc), NEW source, NEW target
    PROVE  /\ SameAPI([doc EXCEPT !.name = target], doc)
           /\ SameAPI(rewriteSelfRefsInNode(doc, source, target), doc)
           /\ SameAPI(rewriteSubscriptionRemarksInNode(doc, source, target), doc)
  <1> DEFINE base == rewriteXrayOutboundRef(doc, source, target)
             ups == Column(base.clash.upstreams, LAMBDA u :
                       IF u.type = "xray-socks5"
                       THEN [u EXCEPT !.ref = RewriteRef(doc, source, target, @)] ELSE u)
             Entries(list) == Column(list, LAMBDA u : replaceRemarkPrefix(u, source, target))
             inbounds == Column(doc.xray.inbounds, LAMBDA i :
                            [replaceRemarkPrefix(i, source, target) EXCEPT !.users = Entries(@),
                                                                          !.user_refs = Entries(@)])
             ref == RewriteRef(doc, source, target, doc.xray.outbound.ref)
             out == [doc.xray.outbound EXCEPT !.ref = ref]
  <1>1. rewriteSelfRefsInNode(doc, source, target) = [base EXCEPT !.clash.upstreams = ups]
    BY DEF rewriteSelfRefsInNode
  <1>2. rewriteSubscriptionRemarksInNode(doc, source, target) = [doc EXCEPT !.xray.inbounds = inbounds]
    BY DEF rewriteSubscriptionRemarksInNode
  <1>3. base = doc \/ base = [doc EXCEPT !.xray = [doc.xray EXCEPT !.outbound = out]]
    BY DEF rewriteXrayOutboundRef
  <1> HIDE DEF base, ups, inbounds, out
  <1>4. base.xray.api = doc.xray.api /\ "xray" \in DOMAIN base
    BY <1>3 DEF StackShape, XrayShape
  <1> QED
    BY <1>1, <1>2, <1>4 DEF SameAPI, StackShape, XrayShape

\* A document built of a template has the API section of the template.
LEMMA BuiltAPI ==
    ASSUME NEW template \in DOMAIN Templates, NEW n \in StackNames, NEW members \in MemberLists,
           NEW users, NEW d \in buildStackDocument(template, n, members),
           NEW new \in applyConfigUserProfileToTemplateRefs(d, users)
    PROVE  StackShape(new) /\ OwnAPI(new)
  <1> DEFINE doc == Templates[template][n]
             renamed == [doc EXCEPT !.name = n]
             named == rewriteSelfRefsInNode(renamed, doc.name, n)
             on == doc.role # "auto"
  <1>1. StackShape(doc) /\ OwnAPI(doc)
    BY TemplatesAssumption DEF StackNames
  <1>2. StackShape(renamed) /\ SameAPI(renamed, doc)
    BY <1>1, RenamedShape, RewrittenAPI
  <1>3. StackShape(named) /\ SameAPI(named, renamed)
    <2> HIDE DEF renamed, doc
    <2> QED
      BY <1>2, SelfRefsShape, RewrittenAPI
  <1>4. d \in applyAutoMembersToDocument(named, members) \/ d = [named EXCEPT !.enabled = on]
    BY DEF buildStackDocument
  <1> HIDE DEF named, on, renamed
  <1>5. SameAPI(d, named)
    <2>1. CASE d = [named EXCEPT !.enabled = on]
      BY <1>3, <2>1 DEF SameAPI, StackShape
    <2>2. CASE d \in applyAutoMembersToDocument(named, members)
      <3>1. \E ups, groups : d = [named EXCEPT !.clash.upstreams = ups, !.clash.groups = groups]
        BY <2>2 DEF applyAutoMembersToDocument
      <3> QED
        BY <1>3, <3>1 DEF SameAPI, StackShape
    <2> QED
      BY <1>4, <2>1, <2>2
  <1>6. StackShape(d)
    BY BuiltShape
  <1>7. SameAPI(new, d)
    <2>1. \E inbounds : new = [d EXCEPT !.xray.inbounds = inbounds]
      BY DEF applyConfigUserProfileToTemplateRefs
    <2> QED
      BY <1>6, <2>1 DEF SameAPI, StackShape, XrayShape
  <1>8. StackShape(new)
    BY <1>6, ProfilesShape
  <1> HIDE DEF doc
  <1>9. OwnAPI(new)
    BY <1>1, <1>2, <1>3, <1>5, <1>7 DEF SameAPI, OwnAPI
  <1> QED
    BY <1>8, <1>9

\* What add and clone allocate ports for.
LEMMA AllocatedDocument ==
    ASSUME Documents, NEW set, NEW n \in StackNames, NEW doc,
           \/ \E template \in DOMAIN Templates, members \in MemberLists :
                 doc \in AddCandidates(set, n, template, members, TRUE)
           \/ \E s \in DOMAIN stacks.files :
                 OwnAPI(stacks.files[s]) /\ doc \in CloneCandidates(set, stacks.files[s], s, n, TRUE)
    PROVE  \E d : StackShape(d) /\ OwnAPI(d) /\ doc \in allocateStackDocumentPorts(d, set)
  <1>1. ASSUME NEW template \in DOMAIN Templates, NEW members \in MemberLists,
               doc \in AddCandidates(set, n, template, members, TRUE)
        PROVE  \E d : StackShape(d) /\ OwnAPI(d) /\ doc \in allocateStackDocumentPorts(d, set)
    <2> DEFINE raw == buildStackDocument(template, n, members)
               built == UNION {applyConfigUserProfileToTemplateRefs(d, set.config.users) : d \in raw}
    <2>1. \E d \in built : doc \in allocateStackDocumentPorts(d, set)
      BY <1>1 DEF AddCandidates
    <2>2. \A d \in built : StackShape(d) /\ OwnAPI(d)
      BY BuiltAPI
    <2> HIDE DEF built
    <2> QED
      BY <2>1, <2>2
  <1>2. ASSUME NEW s \in DOMAIN stacks.files, OwnAPI(stacks.files[s]),
               doc \in CloneCandidates(set, stacks.files[s], s, n, TRUE)
        PROVE  \E d : StackShape(d) /\ OwnAPI(d) /\ doc \in allocateStackDocumentPorts(d, set)
    <2> DEFINE old == stacks.files[s]
               renamed == [old EXCEPT !.name = n]
               refs == rewriteSelfRefsInNode(renamed, s, n)
               copy == rewriteSubscriptionRemarksInNode(refs, s, n)
    <2>1. StackShape(old)
      BY DEF Documents, DirShape, NamedFiles, FilesShape
    <2>2. doc \in allocateStackDocumentPorts(copy, set)
      BY <1>2 DEF CloneCandidates
    <2>3. OwnAPI(old)
      BY <1>2
    <2> HIDE DEF old
    <2>4. StackShape(renamed) /\ SameAPI(renamed, old)
      BY <2>1, RenamedShape, RewrittenAPI
    <2> HIDE DEF renamed
    <2>5. StackShape(refs) /\ SameAPI(refs, renamed)
      BY <2>4, SelfRefsShape, RewrittenAPI
    <2> HIDE DEF refs
    <2>6. StackShape(copy) /\ SameAPI(copy, refs)
      BY <2>5, RemarksShape, RewrittenAPI
    <2> HIDE DEF copy
    <2>7. OwnAPI(copy)
      BY <2>3, <2>4, <2>5, <2>6 DEF SameAPI, OwnAPI
    <2> QED
      BY <2>2, <2>6, <2>7
  <1> QED
    BY <1>1, <1>2

\* The sockets of a document for which ports were allocated, when it is switched on.
PortsFree(set, doc) ==
    LET ports == Column(CollectPortBindings([set EXCEPT !.stacks = <<[doc EXCEPT !.enabled = TRUE]>>]),
                        LAMBDA b : b[2])
    IN  ensureUnique(ports) /\ ToSet(ports) \cap usedPorts(set) = {}

\* Allocated ports are free in the set of a base directory that loads.
LEMMA AllocationFree ==
    ASSUME Documents, NEW set \in loadConfigAndStacks, NEW d, StackShape(d), OwnAPI(d),
           NEW doc \in allocateStackDocumentPorts(d, set)
    PROVE  PortsFree(set, doc)
  <1>1. PICK c \in ToSet(config) : LoadsWith(c, stacks.files, {}) /\ set = LoadedStacks(c, stacks.files)
    BY DEF loadConfigAndStacks
  <1>2. FilesShape(stacks.files) /\ ConfigShape(c) /\ ValidateConfig(c)
    BY <1>1 DEF Documents, DirShape, NamedFiles, ListOfOne, LoadsWith
  <1>3. set.config = c /\ {"config", "stacks"} \subseteq DOMAIN set
    <2> DEFINE raw == LoadStacks(c, stacks.files)
    <2>1. raw.config = c /\ IsList(raw.stacks)
      BY <1>2, LoadStacksFacts DEF FilesShape
    <2>2. {"config", "stacks"} \subseteq DOMAIN raw
      BY DEF LoadStacks
    <2>3. set = ResolveStackSetUserRefs(raw)
      BY <1>1 DEF LoadedStacks
    <2> HIDE DEF raw
    <2> QED
      BY <2>1, <2>2, <2>3, ResolveSetFacts
  <1> DEFINE on == [doc EXCEPT !.enabled = TRUE]
             one == [set EXCEPT !.stacks = <<on>>]
  <1>4. one.config = set.config /\ one.stacks = <<on>>
    <2> HIDE DEF on
    <2> QED
      BY <1>3
  <1> HIDE DEF one
  <1>5. PICK S : S \cap usedPorts(set) = {} /\ Bound(SocketRow(one, on), S)
    BY <1>2, <1>3, <1>4, RowBound
  <1> HIDE DEF on
  <1>6. LET ports == Column(CollectPortBindings(one), LAMBDA b : b[2])
        IN  ensureUnique(ports) /\ ToSet(ports) \cap usedPorts(set) = {}
    BY <1>4, <1>5, SingleStack
  <1> QED
    BY <1>6 DEF PortsFree, one, on

\* A stack added or cloned with ports allocated clashes with no other and not with itself, for
\* every base directory the commands can leave, every template and every set of port ranges
\* (allocateStackDocumentPorts).
THEOREM AllocatedFree == Spec => []AllocatedPortsFree
  <1>1. ASSUME Documents PROVE AllocatedPortsFree
    <2>1. ASSUME NEW set \in loadConfigAndStacks, NEW n \in StackNames,
                 NEW template \in DOMAIN Templates, NEW members \in MemberLists,
                 NEW doc \in AddCandidates(set, n, template, members, TRUE)
          PROVE  PortsFree(set, doc)
      <3>1. PICK d : StackShape(d) /\ OwnAPI(d) /\ doc \in allocateStackDocumentPorts(d, set)
        BY <1>1, <2>1, AllocatedDocument
      <3> QED
        BY <1>1, <3>1, AllocationFree
    <2>2. ASSUME NEW set \in loadConfigAndStacks, NEW n \in StackNames,
                 NEW s \in DOMAIN stacks.files, OwnAPI(stacks.files[s]),
                 NEW doc \in CloneCandidates(set, stacks.files[s], s, n, TRUE)
          PROVE  PortsFree(set, doc)
      <3>1. PICK d : StackShape(d) /\ OwnAPI(d) /\ doc \in allocateStackDocumentPorts(d, set)
        BY <1>1, <2>2, AllocatedDocument
      <3> QED
        BY <1>1, <3>1, AllocationFree
    <2>3. ASSUME NEW set \in loadConfigAndStacks, NEW n \in StackNames,
                 NEW doc \in UNION {UNION {AddCandidates(set, n, template, members, TRUE) :
                                              members \in MemberLists} : template \in DOMAIN Templates}
          PROVE  PortsFree(set, doc)
      <3> DEFINE Of(template) == UNION {AddCandidates(set, n, template, members, TRUE) :
                                           members \in MemberLists}
      <3>1. PICK template \in DOMAIN Templates : doc \in Of(template)
        <4> HIDE DEF Of
        <4>1. doc \in UNION {Of(template) : template \in DOMAIN Templates}
          BY DEF Of
        <4> QED
          BY <4>1
      <3>2. PICK members \in MemberLists : doc \in AddCandidates(set, n, template, members, TRUE)
        BY <3>1
      <3> QED
        BY <2>1, <3>2
    <2>4. ASSUME NEW set \in loadConfigAndStacks, NEW n \in StackNames,
                 NEW doc \in UNION {CloneCandidates(set, stacks.files[s], s, n, TRUE) :
                                       s \in {t \in DOMAIN stacks.files : OwnAPI(stacks.files[t])}}
          PROVE  PortsFree(set, doc)
      BY <2>2
    <2>5. \A set \in loadConfigAndStacks, n \in StackNames :
              LET added == UNION {UNION {AddCandidates(set, n, template, members, TRUE) :
                                            members \in MemberLists} : template \in DOMAIN Templates}
                  cloned == UNION {CloneCandidates(set, stacks.files[s], s, n, TRUE) :
                                      s \in {t \in DOMAIN stacks.files : OwnAPI(stacks.files[t])}}
              IN  \A doc \in added \cup cloned : PortsFree(set, doc)
      BY <2>3, <2>4
    <2> QED
      BY <2>5, Zenon DEF AllocatedPortsFree, PortsFree
  <1>2. Spec => []Documents
    BY DocumentsAlways
  <1> QED
    BY <1>1, <1>2, PTL

(***************************************************************************)
(* Members.                                                                *)
(***************************************************************************)

\* Proxies without one name, as a removal leaves them.
WithoutName(list, name) == Keep(list, LAMBDA p : p \notin {name})

\* A name that stands at one place only is dropped there;
LEMMA DroppedName ==
    ASSUME NEW list, IsList(list), NEW p \in 1..(Len(list) + 1), NEW name,
           \A k \in DOMAIN list : list[k] = name <=> k = p
    PROVE  WithoutName(list, name) = [j \in 1..(IF p <= Len(list) THEN Len(list) - 1 ELSE Len(list)) |->
                                         IF j < p THEN list[j] ELSE list[j + 1]]
  <1> DEFINE rows == [k \in DOMAIN list |-> IF list[k] \notin {name} THEN <<list[k]>> ELSE <<>>]
  <1>1. WithoutName(list, name) = FlattenSeq(rows)
    BY DEF WithoutName, Keep
  <1>2. rows = [k \in DOMAIN list |-> rows[k]]
    OBVIOUS
  <1>3. \A k \in DOMAIN list : rows[k] = IF k = p THEN <<>> ELSE <<list[k]>>
    OBVIOUS
  <1> HIDE DEF rows
  <1> QED
    BY <1>1, <1>2, <1>3, KeepOthers

\* a list without it stays as it is.
LEMMA KeptNames ==
    ASSUME NEW list, IsList(list), NEW name, name \notin ToSet(list)
    PROVE  WithoutName(list, name) = list
  <1> DEFINE p == Len(list) + 1
             At(j) == IF j < p THEN list[j] ELSE list[j + 1]
  <1>1. Len(list) \in Nat /\ DOMAIN list = 1..Len(list) /\ list = [j \in 1..Len(list) |-> list[j]]
    BY ListShape
  <1>2. p \in 1..(Len(list) + 1) /\ ~(p <= Len(list))
    BY <1>1
  <1>3. \A k \in DOMAIN list : list[k] = name <=> k = p
    BY <1>1 DEF ToSet
  <1>4. \A j \in 1..Len(list) : At(j) = list[j]
    BY <1>1
  <1>5. [j \in 1..Len(list) |-> At(j)] = [j \in 1..Len(list) |-> list[j]]
    BY <1>4
  <1> HIDE DEF p
  <1>6. WithoutName(list, name) = [j \in 1..(IF p <= Len(list) THEN Len(list) - 1 ELSE Len(list)) |->
                                      IF j < p THEN list[j] ELSE list[j + 1]]
    BY <1>2, <1>3, DroppedName
  <1> QED
    BY <1>1, <1>2, <1>5, <1>6

\* Where the elements of a list are after an insertion.
LEMMA InsertedPlaces ==
    ASSUME NEW list, IsList(list), NEW k \in DOMAIN list, NEW e
    PROVE  LET new == InsertAt(list, k, e)
           IN  /\ IsList(new) /\ Len(new) = Len(list) + 1 /\ new[k] = e
               /\ \A j \in 1..Len(list) : j < k => new[j] = list[j]
               /\ \A j \in 1..Len(list) : j >= k => new[j + 1] = list[j]
  <1> DEFINE L == Len(list)
             a == SubSeq(list, 1, k - 1)
             b == SubSeq(list, k, Len(list))
             ae == a \o <<e>>
             new == InsertAt(list, k, e)
  <1>1. L \in Nat /\ DOMAIN list = 1..L /\ list \in Seq(ToSet(list)) /\ k \in 1..L
    BY ListShape DEF IsList
  <1>2. a = [m \in 1..(k - 1) |-> list[m]] /\ b = [m \in 1..(L - k + 1) |-> list[m + k - 1]]
    BY <1>1
  <1>3. IsList(a) /\ IsList(b) /\ new = ae \o b
    BY InsertedList
  <1> HIDE DEF a, b, new
  <1>4. Len(a) = k - 1 /\ Len(b) = L - k + 1
    BY <1>1, <1>2, FunctionIsList
  <1>5. IsList(<<e>>) /\ Len(<<e>>) = 1 /\ <<e>>[1] = e
    BY SingletonList
  <1>6. /\ IsList(ae) /\ Len(ae) = Len(a) + Len(<<e>>)
        /\ \A j \in 1..Len(a) : ae[j] = a[j]
        /\ \A j \in 1..Len(<<e>>) : ae[Len(a) + j] = <<e>>[j]
    BY <1>3, <1>5, ListConcat
  <1> HIDE DEF ae
  <1>7. /\ IsList(new) /\ Len(new) = Len(ae) + Len(b)
        /\ \A j \in 1..Len(ae) : new[j] = ae[j]
        /\ \A j \in 1..Len(b) : new[Len(ae) + j] = b[j]
    <2>1. IsList(ae) /\ IsList(b)
      BY <1>3, <1>6
    <2>2. /\ IsList(ae \o b) /\ Len(ae \o b) = Len(ae) + Len(b)
          /\ \A j \in 1..Len(ae) : (ae \o b)[j] = ae[j]
          /\ \A j \in 1..Len(b) : (ae \o b)[Len(ae) + j] = b[j]
      BY <2>1, ListConcat
    <2> QED
      BY <1>3, <2>2
  <1>8. /\ Len(ae) = k /\ ae[k] = e
        /\ \A j \in 1..(k - 1) : ae[j] = a[j]
    BY <1>1, <1>4, <1>5, <1>6
  <1>9. new[k] = e /\ Len(new) = L + 1
    BY <1>1, <1>4, <1>7, <1>8
  <1>10. ASSUME NEW j \in 1..L, j < k PROVE new[j] = list[j]
    <2>1. j \in 1..(k - 1) /\ j \in 1..k
      BY <1>1, <1>10
    <2>2. new[j] = ae[j] /\ ae[j] = a[j]
      BY <1>7, <1>8, <2>1
    <2>3. a[j] = list[j]
      BY <1>2, <2>1
    <2> QED
      BY <2>2, <2>3
  <1>11. ASSUME NEW j \in 1..L, j >= k PROVE new[j + 1] = list[j]
    <2> DEFINE i == j - k + 1
    <2>1. i \in 1..(L - k + 1) /\ k + i = j + 1 /\ i + k - 1 = j
      BY <1>1, <1>11
    <2> HIDE DEF i
    <2>2. new[k + i] = b[i] /\ b[i] = list[i + k - 1]
      BY <1>2, <1>4, <1>7, <1>8, <2>1
    <2> QED
      BY <2>1, <2>2
  <1> QED
    BY <1>7, <1>9, <1>10, <1>11 DEF new

\* A name added to proxies and dropped again leaves them as they were.
LEMMA AppendedAway ==
    ASSUME NEW list, IsList(list), NEW name, name \notin ToSet(list)
    PROVE  WithoutName(Append(list, name), name) = list
  <1> DEFINE new == Append(list, name)
             p == Len(list) + 1
             At(j) == IF j < p THEN new[j] ELSE new[j + 1]
  <1>1. Len(list) \in Nat /\ DOMAIN list = 1..Len(list) /\ list = [j \in 1..Len(list) |-> list[j]]
    BY ListShape
  <1>2. /\ IsList(new) /\ Len(new) = p /\ new[p] = name
        /\ \A j \in 1..Len(list) : new[j] = list[j]
    <2>1. new = Append(list, name)
      OBVIOUS
    <2> HIDE DEF new
    <2>2. Longer(new, list, name)
      BY <2>1, LongerList
    <2> QED
      BY <1>1, <2>2 DEF Longer
  <1> HIDE DEF new
  <1>3. DOMAIN new = 1..p
    BY <1>2, ListShape
  <1>4. \A k \in DOMAIN new : new[k] = name <=> k = p
    BY <1>1, <1>2, <1>3 DEF ToSet
  <1>5. \A j \in 1..Len(list) : At(j) = list[j]
    BY <1>1, <1>2
  <1>6. [j \in 1..Len(list) |-> At(j)] = [j \in 1..Len(list) |-> list[j]]
    BY <1>5
  <1>7. p \in 1..(Len(new) + 1) /\ p <= Len(new) /\ Len(new) - 1 = Len(list)
    BY <1>1, <1>2
  <1> HIDE DEF p
  <1>8. WithoutName(new, name) = [j \in 1..(IF p <= Len(new) THEN Len(new) - 1 ELSE Len(new)) |->
                                     IF j < p THEN new[j] ELSE new[j + 1]]
    BY <1>2, <1>4, <1>7, DroppedName
  <1> QED
    BY <1>1, <1>6, <1>7, <1>8 DEF new

\* The same for one put in the middle.
LEMMA InsertedAway ==
    ASSUME NEW list, IsList(list), NEW name, name \notin ToSet(list), NEW p \in DOMAIN list
    PROVE  WithoutName(InsertAt(list, p, name), name) = list
  <1> DEFINE new == InsertAt(list, p, name)
             L == Len(list)
             At(j) == IF j < p THEN new[j] ELSE new[j + 1]
  <1>1. L \in Nat /\ DOMAIN list = 1..L /\ list = [j \in 1..L |-> list[j]] /\ p \in 1..L
    BY ListShape
  <1>2. /\ IsList(new) /\ Len(new) = L + 1 /\ new[p] = name
        /\ \A j \in 1..L : j < p => new[j] = list[j]
        /\ \A j \in 1..L : j >= p => new[j + 1] = list[j]
    BY InsertedPlaces
  <1> HIDE DEF new
  <1>3. DOMAIN new = 1..(L + 1)
    BY <1>2, ListShape
  <1>4. ASSUME NEW k \in DOMAIN new, k # p PROVE new[k] # name
    <2>1. CASE k < p
      BY <1>1, <1>2, <1>3, <2>1 DEF ToSet
    <2>2. CASE k > p
      <3>1. k - 1 \in 1..L /\ k - 1 >= p /\ (k - 1) + 1 = k
        BY <1>1, <1>3, <2>2
      <3>2. new[(k - 1) + 1] = list[k - 1]
        BY <1>2, <3>1
      <3>3. new[k] = list[k - 1]
        BY <3>1, <3>2
      <3> QED
        BY <1>1, <3>1, <3>3 DEF ToSet
    <2> QED
      BY <1>1, <1>3, <1>4, <2>1, <2>2
  <1>5. \A j \in 1..L : At(j) = list[j]
    BY <1>1, <1>2
  <1>6. [j \in 1..L |-> At(j)] = [j \in 1..L |-> list[j]]
    BY <1>5
  <1>7. p \in 1..(Len(new) + 1) /\ p <= Len(new) /\ Len(new) - 1 = L
    BY <1>1, <1>2
  <1>8. \A k \in DOMAIN new : new[k] = name <=> k = p
    BY <1>2, <1>4
  <1>9. WithoutName(new, name) = [j \in 1..(IF p <= Len(new) THEN Len(new) - 1 ELSE Len(new)) |->
                                     IF j < p THEN new[j] ELSE new[j + 1]]
    BY <1>2, <1>7, <1>8, DroppedName
  <1> QED
    BY <1>1, <1>6, <1>7, <1>9 DEF new

\* What happens to one group when a member is added.
SyncedGroup(g, name, autos) ==
    IF IsAutoGroup(g) THEN [g EXCEPT !.proxies = appendProxyName(@, name)]
    ELSE IF g.type = "select" /\ ToSet(g.proxies) \cap autos # {}
         THEN [g EXCEPT !.proxies = insertProxyNameBeforeDirect(@, name)]
         ELSE g

\* Taking the name out again gives back a group that did not have it.
LEMMA SyncedAway ==
    ASSUME NEW g, GroupShape(g), NEW name, name \notin ToSet(g.proxies), NEW autos
    PROVE  LET new == SyncedGroup(g, name, autos)
           IN  /\ [new EXCEPT !.proxies = WithoutName(@, name)] = g
               /\ new.name = g.name /\ new.type = g.type
  <1> DEFINE old == g.proxies
             new == SyncedGroup(g, name, autos)
             a == appendProxyName(old, name)
             b == insertProxyNameBeforeDirect(old, name)
  <1>1. IsRecord(g) /\ {"name", "type", "proxies"} \subseteq DOMAIN g /\ IsList(old)
    BY DEF GroupShape
  <1>2. WithoutName(old, name) = old
    BY <1>1, KeptNames
  <1>3. WithoutName(Append(old, name), name) = old
    BY <1>1, AppendedAway
  <1>4. WithoutName(a, name) = old
    BY <1>3 DEF appendProxyName
  <1>5. WithoutName(b, name) = old
    <2>1. CASE "DIRECT" \in ToSet(old)
      <3> DEFINE k == SelectInSeq(old, LAMBDA p : p = "DIRECT")
      <3>1. k \in DOMAIN old
        BY <1>1, <2>1, FoundPlace
      <3>2. b = InsertAt(old, k, name)
        BY <2>1 DEF insertProxyNameBeforeDirect
      <3> HIDE DEF k, b
      <3> QED
        BY <1>1, <3>1, <3>2, InsertedAway
    <2>2. CASE "DIRECT" \notin ToSet(old)
      BY <1>3, <2>2 DEF insertProxyNameBeforeDirect
    <2> QED
      BY <2>1, <2>2
  <1>6. new \in {g, [g EXCEPT !.proxies = a], [g EXCEPT !.proxies = b]}
    BY DEF SyncedGroup
  <1> HIDE DEF a, b, new
  <1>7. \A p : WithoutName(p, name) = old =>
            /\ [[g EXCEPT !.proxies = p] EXCEPT !.proxies = WithoutName(@, name)] = g
            /\ [g EXCEPT !.proxies = p].name = g.name /\ [g EXCEPT !.proxies = p].type = g.type
    <2> TAKE p
    <2> HAVE WithoutName(p, name) = old
    <2> DEFINE h == [g EXCEPT !.proxies = p]
               i == [h EXCEPT !.proxies = old]
    <2>1. h.proxies = p /\ h.name = g.name /\ h.type = g.type
      BY <1>1
    <2>2. i = [f \in DOMAIN g |-> g[f]]
      OBVIOUS
    <2>3. i = g
      BY <1>1, <2>2 DEF IsRecord
    <2> QED
      BY <2>1, <2>3
  <1>8. [g EXCEPT !.proxies = WithoutName(@, name)] = g
    <2>1. [g EXCEPT !.proxies = old] = [f \in DOMAIN g |-> g[f]]
      OBVIOUS
    <2> QED
      BY <1>1, <1>2, <2>1 DEF IsRecord
  <1> QED
    BY <1>4, <1>5, <1>6, <1>7, <1>8 DEF new

\* The same for all groups of a document.
LEMMA RemoveSynced ==
    ASSUME NEW doc, StackShape(doc), NEW name,
           \A k \in DOMAIN doc.clash.groups : name \notin ToSet(doc.clash.groups[k].proxies),
           NEW ups
    PROVE  LET new == syncMemberProxyAdd(doc, name)
           IN  /\ syncMemberProxyRemove([new EXCEPT !.clash.upstreams = ups], {name})
                     = [doc EXCEPT !.clash.upstreams = ups]
               /\ new.clash.upstreams = doc.clash.upstreams
               /\ HasMembers(doc) => HasMembers(new)
  <1> DEFINE old == doc.clash.groups
             autos == autoProxyGroupNames(doc)
             new == syncMemberProxyAdd(doc, name)
             mid == [new EXCEPT !.clash.upstreams = ups]
             cells == [k \in DOMAIN old |-> SyncedGroup(old[k], name, autos)]
             back == [k \in DOMAIN cells |-> [cells[k] EXCEPT !.proxies = WithoutName(@, name)]]
  <1>1. new = [doc EXCEPT !.clash.groups = cells \o <<>>]
    BY DEF syncMemberProxyAdd, Column, SyncedGroup
  <1>2. GroupList(old) /\ IsRecord(doc.clash) /\ IsRecord(doc)
        /\ {"upstreams", "groups"} \subseteq DOMAIN doc.clash /\ {"clash", "role"} \subseteq DOMAIN doc
    BY ShapeLists DEF StackShape, ClashShape
  <1>3. /\ cells = [k \in DOMAIN old |-> cells[k]]
        /\ \A k \in DOMAIN old : cells[k] = SyncedGroup(old[k], name, autos)
    OBVIOUS
  <1> HIDE DEF autos
  <1>4. \A k \in DOMAIN old : /\ [cells[k] EXCEPT !.proxies = WithoutName(@, name)] = old[k]
                              /\ cells[k].name = old[k].name /\ cells[k].type = old[k].type
    BY <1>2, <1>3, SyncedAway DEF GroupList
  <1> HIDE DEF cells
  <1>5. cells \o <<>> = cells /\ IsList(cells) /\ DOMAIN cells = DOMAIN old
    BY <1>2, <1>3, ColumnFacts DEF GroupList
  <1>6. new = [doc EXCEPT !.clash = [doc.clash EXCEPT !.groups = cells]]
    BY <1>1, <1>5
  <1>7. new.clash.groups = cells /\ new.clash.upstreams = doc.clash.upstreams /\ new.role = doc.role
    BY <1>2, <1>6
  <1> HIDE DEF new
  <1>8. mid = [doc EXCEPT !.clash = [[doc.clash EXCEPT !.groups = cells] EXCEPT !.upstreams = ups]]
    BY <1>2, <1>6
  <1>9. mid.clash.groups = cells
    BY <1>2, <1>8
  <1> HIDE DEF mid
  <1>10. syncMemberProxyRemove(mid, {name}) = [mid EXCEPT !.clash.groups = back \o <<>>]
    BY <1>9 DEF syncMemberProxyRemove, Column, WithoutName
  <1>11. back = [k \in DOMAIN old |-> old[k]]
    BY <1>4, <1>5
  <1>12. back = old /\ back \o <<>> = old
    <2>1. old = [k \in DOMAIN old |-> old[k]]
      BY <1>2, ListShape, Zenon DEF GroupList
    <2>2. old \o <<>> = old
      BY <1>2, <2>1, ColumnFacts DEF GroupList
    <2> QED
      BY <1>11, <2>1, <2>2
  <1> HIDE DEF back
  <1>13. syncMemberProxyRemove(mid, {name}) = [mid EXCEPT !.clash.groups = old]
    BY <1>10, <1>12
  <1>14. [mid EXCEPT !.clash.groups = old] = [doc EXCEPT !.clash.upstreams = ups]
    <2> DEFINE c1 == [[[doc.clash EXCEPT !.groups = cells] EXCEPT !.upstreams = ups] EXCEPT !.groups = old]
               c2 == [doc.clash EXCEPT !.upstreams = ups]
    <2>1. c1 = c2
      <3>1. DOMAIN c1 = DOMAIN doc.clash /\ DOMAIN c2 = DOMAIN doc.clash
        OBVIOUS
      <3>2. \A f \in DOMAIN doc.clash : c1[f] = c2[f]
        BY <1>2
      <3>3. c1 = [f \in DOMAIN doc.clash |-> c1[f]] /\ c2 = [f \in DOMAIN doc.clash |-> c2[f]]
        OBVIOUS
      <3> HIDE DEF c1, c2
      <3> QED
        BY <3>2, <3>3
    <2>2. [mid EXCEPT !.clash.groups = old] = [doc EXCEPT !.clash = c1]
      BY <1>2, <1>8
    <2>3. [doc EXCEPT !.clash.upstreams = ups] = [doc EXCEPT !.clash = c2]
      OBVIOUS
    <2> QED
      BY <2>1, <2>2, <2>3
  <1>15. ASSUME HasMembers(doc) PROVE HasMembers(new)
    <2>1. PICK g \in ToSet(old) : IsAutoGroup(g)
      BY <1>15 DEF HasMembers, autoProxyGroupNames
    <2>2. PICK k \in DOMAIN old : old[k] = g
      BY <2>1 DEF ToSet
    <2>3. IsAutoGroup(cells[k]) /\ cells[k] \in ToSet(new.clash.groups)
      BY <1>4, <1>5, <1>7, <2>1, <2>2 DEF IsAutoGroup, ToSet
    <2>4. cells[k].name \in autoProxyGroupNames(new)
      BY <2>3 DEF autoProxyGroupNames
    <2> QED
      BY <1>7, <1>15, <2>4 DEF HasMembers
  <1> QED
    BY <1>7, <1>13, <1>14, <1>15 DEF new, mid

\* Dropping the last element of a list that one was appended to.
LEMMA LastDropped ==
    ASSUME NEW list, IsList(list), NEW e, NEW rows, rows = [k \in DOMAIN Append(list, e) |-> rows[k]],
           \A k \in DOMAIN list : rows[k] = <<list[k]>>, rows[Len(list) + 1] = <<>>
    PROVE  FlattenSeq(rows) = list
  <1> DEFINE longer == Append(list, e)
             L == Len(list)
             p == L + 1
             At(j) == IF j < p THEN longer[j] ELSE longer[j + 1]
  <1>1. L \in Nat /\ DOMAIN list = 1..L /\ list = [j \in 1..L |-> list[j]]
    BY ListShape
  <1>0. longer = Append(list, e) /\ rows = [k \in DOMAIN longer |-> rows[k]]
    OBVIOUS
  <1> HIDE DEF longer
  <1>2. /\ IsList(longer) /\ Len(longer) = Len(list) + 1 /\ DOMAIN longer = 1..(Len(list) + 1)
        /\ \A k \in 1..Len(list) : longer[k] = list[k]
    <2>1. Longer(longer, list, e)
      BY <1>0, LongerList
    <2> QED
      BY <2>1 DEF Longer
  <1>3. rows = [k \in DOMAIN longer |-> rows[k]]
    BY <1>0
  <1>5. ASSUME NEW k \in DOMAIN longer
        PROVE  rows[k] = IF k = p THEN <<>> ELSE <<longer[k]>>
    <2>1. CASE k = p
      BY <2>1
    <2>2. CASE k # p
      <3>1. k \in 1..Len(list)
        BY <1>1, <1>2, <2>2
      <3>2. rows[k] = <<list[k]>> /\ longer[k] = list[k]
        BY <1>1, <1>2, <3>1
      <3> QED
        BY <2>2, <3>2
    <2> QED
      BY <2>1, <2>2
  <1>6. p \in 1..(Len(longer) + 1) /\ p <= Len(longer) /\ Len(longer) - 1 = L
    BY <1>1, <1>2
  <1>7. \A j \in 1..L : At(j) = list[j]
    BY <1>1, <1>2
  <1>8. [j \in 1..L |-> At(j)] = [j \in 1..L |-> list[j]]
    BY <1>7
  <1> HIDE DEF p
  <1>9. FlattenSeq(rows) = [j \in 1..(IF p <= Len(longer) THEN Len(longer) - 1 ELSE Len(longer)) |->
                               IF j < p THEN longer[j] ELSE longer[j + 1]]
    BY <1>2, <1>3, <1>5, <1>6, KeepOthers
  <1> QED
    BY <1>1, <1>6, <1>8, <1>9

\* The members of a document with one more upstream that is a member.
MembersIn(ups) ==
    Column(Keep(ups, LAMBDA u : u.type = "xray-socks5"),
           LAMBDA u : IF ValidateRef(u.ref, 2) THEN u.ref[1] ELSE "-")

\* It is listed last.
LEMMA OneMoreMember ==
    ASSUME NEW ups, IsList(ups), NEW m \in StackNames
    PROVE  MembersIn(Append(ups, MemberUpstream(m))) = Append(MembersIn(ups), m)
  <1> DEFINE u == MemberUpstream(m)
             longer == Append(ups, u)
             Row(v) == IF v.type = "xray-socks5" THEN <<v>> ELSE <<>>
             Shown(v) == IF ValidateRef(v.ref, 2) THEN v.ref[1] ELSE "-"
             rows == [k \in DOMAIN ups |-> Row(ups[k])]
             more == [k \in DOMAIN longer |-> Row(longer[k])]
             kept == FlattenSeq(rows)
             both == kept \o <<u>>
             shown == [k \in DOMAIN kept |-> Shown(kept[k])]
             all == [k \in DOMAIN both |-> Shown(both[k])]
  <1>1. Row(u) = <<u>> /\ Shown(u) = m
    <2>1. u.type = "xray-socks5" /\ u.ref = <<m, "relay">>
      BY DEF MemberUpstream
    <2> DEFINE r == <<m, "relay">>
    <2>2. Len(r) = 2 /\ DOMAIN r = 1..2 /\ r[1] = m /\ r[2] = "relay"
      OBVIOUS
    <2>3. u.ref = r
      BY <2>1
    <2> HIDE DEF u, r
    <2>4. ValidateRef(r, 2)
      <3>1. r[1] # "" /\ r[2] # ""
        BY <2>2, NamesAssumption DEF StackNames
      <3> QED
        <4>1. \A i \in 1..2 : i = 1 \/ i = 2
          OBVIOUS
        <4>2. \A i \in DOMAIN r : r[i] # ""
          BY <2>2, <3>1, <4>1, Zenon
        <4> QED
          BY <2>2, <4>2, Zenon DEF ValidateRef
    <2>5. Shown(u) = u.ref[1]
      BY <2>3, <2>4
    <2>6. Row(u) = <<u>>
      BY <2>1
    <2> HIDE DEF Shown, Row
    <2> QED
      BY <2>2, <2>3, <2>5, <2>6
  <1>2. MembersIn(ups) = shown \o <<>> /\ MembersIn(longer) = [k \in DOMAIN FlattenSeq(more) |-> Shown(FlattenSeq(more)[k])] \o <<>>
    BY DEF MembersIn, Column, Keep
  <1>0. longer = Append(ups, u)
    OBVIOUS
  <1> HIDE DEF u, longer
  <1>3. /\ Len(ups) \in Nat /\ DOMAIN ups = 1..Len(ups) /\ IsList(longer)
        /\ DOMAIN longer = 1..(Len(ups) + 1)
        /\ longer[Len(ups) + 1] = u /\ \A k \in 1..Len(ups) : longer[k] = ups[k]
    <2>1. Longer(longer, ups, u)
      BY <1>0, LongerList
    <2> QED
      BY <2>1 DEF Longer
  <1>5. /\ rows = [k \in DOMAIN ups |-> rows[k]] /\ \A k \in DOMAIN ups : rows[k] = Row(ups[k])
        /\ more = [k \in DOMAIN longer |-> more[k]] /\ \A k \in DOMAIN longer : more[k] = Row(longer[k])
    OBVIOUS
  <1>6. \A v : Row(v) \in {<<>>, <<v>>} /\ IsList(Row(v))
    <2>1. IsList(<<>>)
      BY EmptySeq DEF IsList, ToSet
    <2> QED
      BY <2>1, SingletonList
  <1> HIDE DEF Row, rows, more
  <1>7. IsTable(rows) /\ IsList(rows) /\ Len(rows) = Len(ups) /\ DOMAIN rows = DOMAIN ups
    <2>1. IsList(rows) /\ Len(rows) = Len(ups) /\ DOMAIN rows = DOMAIN ups
      BY <1>5, ColumnFacts
    <2> QED
      BY <1>5, <1>6, <2>1 DEF IsTable
  <1>8. more = Append(rows, <<u>>)
    <2> DEFINE a == Append(rows, <<u>>)
               N == Len(ups) + 1
    <2>0. a = Append(rows, <<u>>)
      OBVIOUS
    <2> HIDE DEF a
    <2>1. /\ a = [k \in 1..(Len(rows) + 1) |-> a[k]] /\ a[Len(rows) + 1] = <<u>>
          /\ \A k \in 1..Len(rows) : a[k] = rows[k]
      <3>1. Longer(a, rows, <<u>>)
        BY <1>7, <2>0, LongerList
      <3> QED
        BY <3>1 DEF Longer
    <2>2. /\ a = [k \in 1..N |-> a[k]] /\ a[N] = <<u>>
          /\ \A k \in 1..Len(ups) : a[k] = rows[k]
      BY <1>7, <2>1
    <2>3. ASSUME NEW k \in 1..N PROVE more[k] = a[k]
      <3>1. more[k] = Row(longer[k])
        BY <1>3, <1>5
      <3>2. CASE k = N
        BY <1>1, <1>3, <2>2, <3>1, <3>2
      <3>3. CASE k # N
        <4>1. k \in 1..Len(ups)
          BY <1>3, <3>3
        <4>2. longer[k] = ups[k] /\ a[k] = rows[k] /\ rows[k] = Row(ups[k])
          BY <1>3, <1>5, <2>2, <4>1
        <4> QED
          BY <3>1, <4>2
      <3> QED
        BY <3>2, <3>3
    <2>4. more = [k \in 1..N |-> more[k]]
      BY <1>3, <1>5, Zenon
    <2>5. more = a
      BY <2>2, <2>3, <2>4
    <2> QED
      BY <2>5 DEF a
  <1>9. FlattenSeq(more) = both
    <2>1. IsList(<<u>>)
      BY SingletonList
    <2>2. FlattenSeq(Append(rows, <<u>>)) = FlattenSeq(rows) \o <<u>>
      BY <1>7, <2>1, FlattenAppend
    <2> QED
      BY <1>8, <2>2
  <1>10. IsList(kept) /\ Len(kept) \in Nat /\ DOMAIN kept = 1..Len(kept)
    <2>1. \A k \in DOMAIN ups : rows[k] \in {<<>>, <<ups[k]>>}
      BY <1>5, <1>6
    <2>2. IsList(FlattenSeq(rows))
      BY <1>5, <2>1, KeepFacts
    <2> QED
      BY <2>2, ListShape
  <1> HIDE DEF kept
  <1>11. /\ IsList(both) /\ Len(both) = Len(kept) + 1 /\ both[Len(kept) + 1] = u
         /\ \A k \in 1..Len(kept) : both[k] = kept[k]
    <2>1. IsList(<<u>>) /\ Len(<<u>>) = 1 /\ <<u>>[1] = u
      BY SingletonList
    <2>2. both = Append(kept, u)
      BY <1>10 DEF IsList
    <2> HIDE DEF both
    <2> QED
      <3>1. Longer(both, kept, u)
        BY <1>10, <2>2, LongerList
      <3> QED
        BY <3>1 DEF Longer
  <1> HIDE DEF both
  <1>12. /\ shown = [k \in DOMAIN kept |-> shown[k]] /\ \A k \in DOMAIN kept : shown[k] = Shown(kept[k])
         /\ all = [k \in DOMAIN both |-> all[k]] /\ \A k \in DOMAIN both : all[k] = Shown(both[k])
    OBVIOUS
  <1>13. MembersIn(longer) = all \o <<>>
    BY <1>2, <1>9
  <1> HIDE DEF shown, all, Shown
  <1>14. /\ shown \o <<>> = shown /\ IsList(shown) /\ Len(shown) = Len(kept) /\ DOMAIN shown = DOMAIN kept
         /\ all \o <<>> = all /\ IsList(all) /\ Len(all) = Len(both) /\ DOMAIN all = DOMAIN both
    BY <1>10, <1>11, <1>12, ColumnFacts
  <1>15. all = Append(shown, m)
    <2> DEFINE a == Append(shown, m)
               N == Len(kept) + 1
    <2>0. a = Append(shown, m)
      OBVIOUS
    <2> HIDE DEF a
    <2>1. /\ a = [k \in 1..(Len(shown) + 1) |-> a[k]] /\ a[Len(shown) + 1] = m
          /\ \A k \in 1..Len(shown) : a[k] = shown[k]
      <3>1. Longer(a, shown, m)
        BY <1>14, <2>0, LongerList
      <3> QED
        BY <3>1 DEF Longer
    <2>2. /\ a = [k \in 1..N |-> a[k]] /\ a[N] = m
          /\ \A k \in 1..Len(kept) : a[k] = shown[k]
      BY <1>14, <2>1
    <2>3. DOMAIN both = 1..N /\ all = [k \in 1..N |-> all[k]]
      <3>1. DOMAIN both = 1..Len(both)
        BY <1>11, ListShape
      <3>2. DOMAIN both = 1..N
        BY <1>11, <3>1
      <3> QED
        BY <1>12, <3>2, Zenon
    <2>4. ASSUME NEW k \in 1..N PROVE all[k] = a[k]
      <3>1. all[k] = Shown(both[k])
        BY <1>12, <2>3
      <3>2. CASE k = N
        BY <1>1, <1>11, <2>2, <3>1, <3>2
      <3>3. CASE k # N
        <4>1. k \in 1..Len(kept)
          BY <1>10, <3>3
        <4>2. both[k] = kept[k] /\ a[k] = shown[k] /\ shown[k] = Shown(kept[k])
          BY <1>10, <1>11, <1>12, <2>2, <4>1
        <4> QED
          BY <3>1, <4>2
      <3> QED
        BY <3>2, <3>3
    <2>5. all = a
      BY <2>2, <2>3, <2>4
    <2> QED
      BY <2>5 DEF a
  <1> QED
    BY <1>2, <1>13, <1>14, <1>15 DEF longer, u

\* In a valid document no group has the upstream of a member that is not there among its proxies.
LEMMA NameIsNew ==
    ASSUME NEW doc, StackShape(doc), ValidateClash(doc.clash), NEW m \in StackNames,
           LocalName[m] \notin {g.name : g \in ToSet(doc.clash.groups)},
           \A k \in DOMAIN doc.clash.upstreams : doc.clash.upstreams[k].name # LocalName[m]
    PROVE  \A k \in DOMAIN doc.clash.groups : LocalName[m] \notin ToSet(doc.clash.groups[k].proxies)
  <1>1. LocalName[m] \notin {"DIRECT", "REJECT"}
    BY LocalNameAssumption DEF StackNames
  <1>2. \A k \in DOMAIN doc.clash.groups : doc.clash.groups[k].name # LocalName[m]
    BY DEF ToSet
  <1>3. LocalName[m] \notin KnownTargets(doc.clash)
    BY <1>1, <1>2 DEF KnownTargets
  <1> QED
    BY <1>3 DEF ValidateClash

\* A member added to a valid document is its last one, and removing it gives back the document.
LEMMA AddedThenRemoved ==
    ASSUME NEW doc, StackShape(doc), ValidateClash(doc.clash), NEW m \in StackNames,
           LocalName[m] \notin {g.name : g \in ToSet(doc.clash.groups)},
           NEW added \in addMemberToDocument(doc, m)
    PROVE  /\ membersFromDocument(added) = Append(membersFromDocument(doc), m)
           /\ removeMemberFromDocument(added, m) = {doc}
  <1> DEFINE name == LocalName[m]
             ups == doc.clash.upstreams
             u == MemberUpstream(m)
             longer == Append(ups, u)
             base == [doc EXCEPT !.clash.upstreams = longer]
             Of(v) == v.type = "xray-socks5" /\ (v.name = name \/ v.ref = <<m, "relay">>)
             removed == {v.name : v \in {w \in ToSet(longer) : Of(w)}}
             rows == [k \in DOMAIN longer |-> IF ~Of(longer[k]) THEN <<longer[k]>> ELSE <<>>]
  <1>1. /\ HasMembers(doc) /\ added = syncMemberProxyAdd(base, name)
        /\ \A v \in ToSet(ups) : v.name # name /\ ~Of(v)
    BY DEF addMemberToDocument
  <1>2. u.name = name /\ Of(u)
    BY DEF MemberUpstream
  <1>3. IsList(ups) /\ UpstreamList(ups)
    BY ShapeLists DEF UpstreamList
  <1>4. UpstreamShape(u)
    <2>1. <<m, "relay">> = [k \in 1..2 |-> <<m, "relay">>[k]]
      OBVIOUS
    <2>2. IsList(<<m, "relay">>)
      BY <2>1, FunctionIsList
    <2> QED
      BY <2>2 DEF MemberUpstream, UpstreamShape
  <1>5. longer = Append(ups, u)
    OBVIOUS
  <1> HIDE DEF name, u, longer
  <1>6. Longer(longer, ups, u)
    BY <1>3, <1>5, LongerList
  <1>7. ToSet(longer) = ToSet(ups) \cup {u}
    BY <1>6, LongerSet
  <1>8. UpstreamList(longer)
    <2>1. ASSUME NEW k \in DOMAIN longer PROVE UpstreamShape(longer[k])
      <3>1. CASE k = Len(ups) + 1
        BY <1>4, <1>6, <3>1 DEF Longer
      <3>2. CASE k # Len(ups) + 1
        <4>1. k \in 1..Len(ups)
          BY <1>6, <3>2 DEF Longer
        <4> QED
          BY <1>3, <1>6, <4>1 DEF Longer, UpstreamList
      <3> QED
        BY <3>1, <3>2
    <2> QED
      BY <1>6, <2>1 DEF UpstreamList, Longer
  <1>9. StackShape(base)
    BY <1>8, WithUpstreams
  <1>10. /\ base.clash.groups = doc.clash.groups /\ base.clash.upstreams = longer
         /\ base.role = doc.role
    BY DEF StackShape, ClashShape
  <1>11. HasMembers(base)
    BY <1>1, <1>10 DEF HasMembers, autoProxyGroupNames
  <1>12. \A k \in DOMAIN base.clash.groups : name \notin ToSet(base.clash.groups[k].proxies)
    <2>1. \A k \in DOMAIN ups : ups[k].name # name
      BY <1>1 DEF ToSet
    <2> QED
      BY <1>10, <2>1, NameIsNew DEF name
  <1> HIDE DEF base
  <1>13. /\ syncMemberProxyRemove([added EXCEPT !.clash.upstreams = ups], {name})
               = [base EXCEPT !.clash.upstreams = ups]
         /\ added.clash.upstreams = longer /\ HasMembers(added)
    <2> DEFINE new == syncMemberProxyAdd(base, name)
    <2>1. /\ syncMemberProxyRemove([new EXCEPT !.clash.upstreams = ups], {name})
               = [base EXCEPT !.clash.upstreams = ups]
          /\ new.clash.upstreams = base.clash.upstreams
          /\ HasMembers(base) => HasMembers(new)
      <3> HIDE DEF ups
      <3> QED
        BY <1>9, <1>12, RemoveSynced, ZenonT(30)
    <2>2. added = new
      BY <1>1
    <2> HIDE DEF new
    <2> QED
      BY <1>10, <1>11, <2>1, <2>2
  <1>14. removed = {name}
    BY <1>1, <1>2, <1>7
  <1>15. FlattenSeq(rows) = ups
    <2>1. rows = [k \in DOMAIN longer |-> rows[k]]
      OBVIOUS
    <2>2. ASSUME NEW k \in DOMAIN ups PROVE rows[k] = <<ups[k]>>
      <3>1. k \in 1..Len(ups) /\ k \in DOMAIN longer /\ longer[k] = ups[k]
        BY <1>6 DEF Longer
      <3>2. ~Of(ups[k])
        BY <1>1 DEF ToSet
      <3> HIDE DEF Of
      <3> QED
        BY <3>1, <3>2
    <2>3. rows[Len(ups) + 1] = <<>>
      <3>1. Len(ups) + 1 \in DOMAIN longer /\ longer[Len(ups) + 1] = u
        BY <1>6 DEF Longer
      <3> HIDE DEF Of
      <3> QED
        BY <1>2, <3>1
    <2>4. rows = [k \in DOMAIN Append(ups, u) |-> rows[k]]
      BY <1>5, <2>1, Zenon
    <2> HIDE DEF rows
    <2> QED
      BY <1>3, <2>2, <2>3, <2>4, LastDropped
  <1>16. removeMemberFromDocument(added, m)
            = {syncMemberProxyRemove([added EXCEPT !.clash.upstreams = FlattenSeq(rows)], removed)}
    <2>1. removed # {}
      BY <1>14
    <2> QED
      BY <1>13, <2>1 DEF removeMemberFromDocument, Keep, name
  <1>17. [base EXCEPT !.clash.upstreams = ups] = doc
    <2> DEFINE c == [[doc.clash EXCEPT !.upstreams = longer] EXCEPT !.upstreams = ups]
    <2>1. IsRecord(doc) /\ IsRecord(doc.clash) /\ "clash" \in DOMAIN doc /\ "upstreams" \in DOMAIN doc.clash
      BY DEF StackShape, ClashShape
    <2>2. c = doc.clash
      <3>1. c = [f \in DOMAIN doc.clash |-> doc.clash[f]]
        BY <2>1
      <3> QED
        BY <2>1, <3>1 DEF IsRecord
    <2>3. [base EXCEPT !.clash.upstreams = ups] = [doc EXCEPT !.clash = c]
      BY <2>1 DEF base
    <2> HIDE DEF c
    <2>4. [doc EXCEPT !.clash = c] = [f \in DOMAIN doc |-> doc[f]]
      BY <2>2
    <2> QED
      BY <2>1, <2>3, <2>4 DEF IsRecord
  <1>18. removeMemberFromDocument(added, m) = {doc}
    BY <1>13, <1>14, <1>15, <1>16, <1>17
  <1>19. membersFromDocument(added) = Append(membersFromDocument(doc), m)
    <2>1. membersFromDocument(added) = MembersIn(longer) /\ membersFromDocument(doc) = MembersIn(ups)
      BY <1>13 DEF membersFromDocument, MembersIn
    <2>2. MembersIn(Append(ups, MemberUpstream(m))) = Append(MembersIn(ups), m)
      BY <1>3, OneMoreMember
    <2> QED
      BY <1>5, <2>1, <2>2 DEF u
  <1> QED
    BY <1>18, <1>19

\* In every base directory that loads, member add can be undone by member remove, unless a group
\* of the document has the name of the upstream that is added.
THEOREM AddCanBeUndone == Spec => []RemoveUndoesAdd
  <1>1. ASSUME Documents PROVE RemoveUndoesAdd
    <2> SUFFICES ASSUME NEW n \in DOMAIN stacks.files, NEW m \in StackNames,
                        loadConfigAndStacks # {},
                        LocalName[m] \notin {g.name : g \in ToSet(stacks.files[n].clash.groups)},
                        NEW added \in addMemberToDocument(stacks.files[n], m)
                 PROVE  /\ membersFromDocument(added) = Append(membersFromDocument(stacks.files[n]), m)
                        /\ removeMemberFromDocument(added, m) = {stacks.files[n]}
      BY DEF RemoveUndoesAdd
    <2> DEFINE doc == stacks.files[n]
    <2>1. StackShape(doc)
      BY <1>1 DEF Documents, DirShape, NamedFiles, FilesShape
    <2>2. LoadableStack(n, doc)
      BY DEF loadConfigAndStacks, LoadsWith
    <2>3. ValidateClash(doc.clash)
      BY <2>2 DEF LoadableStack, ValidateStack
    <2> HIDE DEF doc
    <2> QED
      BY <2>1, <2>3, AddedThenRemoved DEF doc
  <1> QED
    BY <1>1, DocumentsAlways, PTL
=============================================================================
