---------------------------- MODULE StackDocument ----------------------------
(***************************************************************************)
(* agentconfig/: how commands make a stack document out of a template or   *)
(* another document, and change one: names, references to itself, ports,   *)
(* members of an auto stack.                                               *)
(*                                                                         *)
(* The code works on YAML nodes so that comments survive; the comments are *)
(* left out.  A remark that begins with the name of the stack is taken as  *)
(* that name.  An operator that may refuse gives the set of its results,   *)
(* {} being the refusal.                                                   *)
(***************************************************************************)
EXTENDS StackValidation

CONSTANTS
    Templates,   \* Templates[template][n]: a built-in template rendered for stack n
    LocalName    \* LocalName[m] is the name of the upstream of member m, "m-local"

\* No name ending in -local is a built-in target.
ASSUME LocalNameAssumption == \A m \in ToSet(StackOrder) : LocalName[m] \notin {"DIRECT", "REJECT"}

(***************************************************************************)
(* Names.                                                                  *)
(***************************************************************************)

\* selfRefRewrites: the references that name something of the document itself.
selfRefRewrites(doc, source) ==
    {<<source, i.name>> : i \in ToSet(doc.xray.inbounds)}
        \cup (IF doc.clash.listeners.socks # <<>> THEN {<<source, "clash", "socks">>} ELSE {})
        \cup (IF doc.clash.listeners.http # <<>> THEN {<<source, "clash", "http">>} ELSE {})

RewriteRef(doc, source, target, ref) ==
    IF ref \in selfRefRewrites(doc, source) THEN [ref EXCEPT ![1] = target] ELSE ref

\* rewriteXrayOutboundRef
rewriteXrayOutboundRef(doc, source, target) ==
    IF doc.xray.outbound.type = "clash"
    THEN [doc EXCEPT !.xray.outbound.ref = RewriteRef(doc, source, target, @)] ELSE doc

\* Mutated rewriteSelfRefsInNode: the upstreams are forgotten.
rewriteOutboundOnly(doc, source, target) == rewriteXrayOutboundRef(doc, source, target)

\* rewriteSelfRefsInNode: the outbound, then rewriteClashUpstreamRefs.
rewriteSelfRefsInNode(doc, source, target) ==
    [rewriteXrayOutboundRef(doc, source, target) EXCEPT
        !.clash.upstreams = Column(@, LAMBDA u :
            IF u.type = "xray-socks5"
            THEN [u EXCEPT !.ref = RewriteRef(doc, source, target, @)] ELSE u)]

\* replaceRemarkPrefix
replaceRemarkPrefix(entry, source, target) ==
    IF entry.remark = source THEN [entry EXCEPT !.remark = target] ELSE entry

\* rewriteSubscriptionRemarksInNode
rewriteSubscriptionRemarksInNode(doc, source, target) ==
    LET Entries(list) == Column(list, LAMBDA u : replaceRemarkPrefix(u, source, target))
    IN  [doc EXCEPT !.xray.inbounds = Column(@, LAMBDA i :
            [replaceRemarkPrefix(i, source, target) EXCEPT !.users = Entries(@),
                                                           !.user_refs = Entries(@)])]

(***************************************************************************)
(* Ports.                                                                  *)
(***************************************************************************)

usedPorts(set) == {b[2] : b \in ToSet(CollectPortBindings(set))}

\* The API has a port of its own only if the document itself switches it on.
OwnAPI(doc) == "enabled" \in DOMAIN doc.xray.api /\ doc.xray.api.enabled

\* Every built-in template does (snippets/xray/api/default.yaml.tmpl).
ASSUME TemplatesAssumption ==
    \A template \in DOMAIN Templates : \A n \in ToSet(StackOrder) :
        StackShape(Templates[template][n]) /\ OwnAPI(Templates[template][n])

\* How many ports are asked for, of which range; a list left out asks for none.
PortRequests(doc) ==
    [xray_inbound |-> Len(doc.xray.inbounds), xray_api_range |-> IF OwnAPI(doc) THEN 1 ELSE 0,
     clash_socks |-> Len(doc.clash.listeners.socks), clash_http |-> Len(doc.clash.listeners.http),
     clash_controller |-> 1]

\* What was taken so far is a function from the ranges to ports.
TakenPorts(t) == UNION {ToSet(t[r]) : r \in DOMAIN t}

\* Mutated TakePorts: a port taken for one list is not marked as used for the next.
TakeUnmarked(taken, range, ranges, used, requests) ==
    IF requests[range] = 0 THEN taken
    ELSE UNION {{[t EXCEPT ![range] = ports] :
                    ports \in Allocate(ranges[range], used, requests[range])} : t \in taken}

\* The next ports, of one range; those taken before are used.
TakePorts(taken, range, ranges, used, requests) ==
    IF requests[range] = 0 THEN taken
    ELSE UNION {{[t EXCEPT ![range] = ports] :
                    ports \in Allocate(ranges[range], used \cup TakenPorts(t), requests[range])}
                   : t \in taken}

\* All ports, range after range; {} if there are not enough.
AllocatePorts(ranges, used, requests) ==
    LET Take(taken, range) == TakePorts(taken, range, ranges, used, requests)
        none == {[range \in DOMAIN requests |-> <<>>]}
    IN  Take(Take(Take(Take(Take(none, "xray_inbound"), "xray_api_range"), "clash_socks"),
                  "clash_http"), "clash_controller")

\* A list with the ports that were allocated to it.
WithPorts(list, ports) == [k \in DOMAIN list |-> [list[k] EXCEPT !.port = ports[k]]] \o <<>>

\* allocateStackDocumentPorts
allocateStackDocumentPorts(doc, set) ==
    LET Host(api) == IF "listen" \in DOMAIN api THEN api.listen[1] ELSE "127.0.0.1"
    IN  {[doc EXCEPT
            !.xray.inbounds = WithPorts(@, t.xray_inbound),
            !.xray.api = IF OwnAPI(doc) THEN Put(@, "listen", <<Host(@), t.xray_api_range[1]>>) ELSE @,
            !.clash.listeners.socks = WithPorts(@, t.clash_socks),
            !.clash.listeners.http = WithPorts(@, t.clash_http),
            !.clash.controller.listen[2] = t.clash_controller[1]]
           : t \in AllocatePorts(set.config.port_ranges, usedPorts(set), PortRequests(doc))}

(***************************************************************************)
(* Members of an auto stack.                                               *)
(***************************************************************************)

IsAutoGroup(g) == g.type \in {"url-test", "load-balance"}
\* autoProxyGroupNames
autoProxyGroupNames(doc) == {g.name : g \in {h \in ToSet(doc.clash.groups) : IsAutoGroup(h)}}
\* autoClashMapping: the stack has members.
HasMembers(doc) == doc.role = "auto" /\ autoProxyGroupNames(doc) # {}

MemberUpstream(m) ==
    [name |-> LocalName[m], type |-> "xray-socks5", ref |-> <<m, "relay">>, config |-> <<>>]

appendProxyName(proxies, name) == IF name \in ToSet(proxies) THEN proxies ELSE Append(proxies, name)

\* insertProxyNameBeforeDirect
insertProxyNameBeforeDirect(proxies, name) ==
    IF name \in ToSet(proxies) THEN proxies
    ELSE IF "DIRECT" \in ToSet(proxies)
         THEN InsertAt(proxies, SelectInSeq(proxies, LAMBDA p : p = "DIRECT"), name)
         ELSE Append(proxies, name)

\* syncMemberProxyAdd; a select group follows if it has an auto group among its proxies.
syncMemberProxyAdd(doc, name) ==
    [doc EXCEPT !.clash.groups = Column(@, LAMBDA g :
        IF IsAutoGroup(g) THEN [g EXCEPT !.proxies = appendProxyName(@, name)]
        ELSE IF g.type = "select" /\ ToSet(g.proxies) \cap autoProxyGroupNames(doc) # {}
             THEN [g EXCEPT !.proxies = insertProxyNameBeforeDirect(@, name)]
             ELSE g)]

\* addMemberToDocument
addMemberToDocument(doc, m) ==
    IF \/ ~HasMembers(doc)
       \/ \E u \in ToSet(doc.clash.upstreams) :
             u.name = LocalName[m] \/ (u.type = "xray-socks5" /\ u.ref = <<m, "relay">>)
    THEN {}
    ELSE {syncMemberProxyAdd([doc EXCEPT !.clash.upstreams = Append(@, MemberUpstream(m))],
                             LocalName[m])}

\* Mutated syncMemberProxyRemove: select groups keep the name.
syncAutoGroupsOnly(doc, names) ==
    [doc EXCEPT !.clash.groups = Column(@, LAMBDA g :
        IF IsAutoGroup(g) THEN [g EXCEPT !.proxies = Keep(@, LAMBDA p : p \notin names)] ELSE g)]

\* syncMemberProxyRemove
syncMemberProxyRemove(doc, names) ==
    [doc EXCEPT !.clash.groups = Column(@, LAMBDA g :
        [g EXCEPT !.proxies = Keep(@, LAMBDA p : p \notin names)])]

\* removeMemberFromDocument
removeMemberFromDocument(doc, m) ==
    LET Of(u) == u.type = "xray-socks5" /\ (u.name = LocalName[m] \/ u.ref = <<m, "relay">>)
        removed == {u.name : u \in {v \in ToSet(doc.clash.upstreams) : Of(v)}}
    IN  IF ~HasMembers(doc) \/ removed = {} THEN {}
        ELSE {syncMemberProxyRemove(
                 [doc EXCEPT !.clash.upstreams = Keep(@, LAMBDA u : ~Of(u))], removed)}

\* membersFromDocument, before they are sorted; a ref that is no inbound of a stack shows as "-".
membersFromDocument(doc) ==
    Column(Keep(doc.clash.upstreams, LAMBDA u : u.type = "xray-socks5"),
           LAMBDA u : IF ValidateRef(u.ref, 2) THEN u.ref[1] ELSE "-")

\* applyAutoMembersToDocument: these members instead of those of the template.
applyAutoMembersToDocument(doc, members) ==
    LET names == Column(members, LAMBDA m : LocalName[m])
        autos == Keep(doc.clash.groups, IsAutoGroup)
    IN  IF autos = <<>> THEN {}
        ELSE {[doc EXCEPT
                 !.clash.upstreams = Column(members, MemberUpstream),
                 !.clash.groups = Column(@, LAMBDA g :
                    IF IsAutoGroup(g) THEN [g EXCEPT !.proxies = names]
                    ELSE IF g.type = "select"
                         THEN [g EXCEPT !.proxies = <<Last(autos).name>> \o names \o <<"DIRECT">>]
                         ELSE g)]}

(***************************************************************************)
(* New documents.                                                          *)
(***************************************************************************)

\* applyConfigUserProfileToTemplateRefs: refs to user1 become refs to the first user.
applyConfigUserProfileToTemplateRefs(doc, users) ==
    IF users = <<>> THEN {}
    ELSE {[doc EXCEPT !.xray.inbounds = Column(@, LAMBDA i :
             [i EXCEPT !.user_refs = Column(@, LAMBDA r :
                IF UserProfileKey(r) = <<"user1", "default">>
                THEN [r EXCEPT !.user = users[1].user, !.profile = UserProfileKey(users[1])[2]]
                ELSE r)])]}

\* buildStackDocument of a built-in template; without members an auto stack starts disabled.
buildStackDocument(template, n, members) ==
    LET doc == Templates[template][n]
        named == rewriteSelfRefsInNode([doc EXCEPT !.name = n], doc.name, n)
    IN  IF members # <<>> THEN applyAutoMembersToDocument(named, members)
        ELSE {[named EXCEPT !.enabled = doc.role # "auto"]}

\* buildAddStackCandidate before it is validated.
AddCandidates(set, n, template, members, allocate) ==
    LET built == UNION {applyConfigUserProfileToTemplateRefs(d, set.config.users)
                           : d \in buildStackDocument(template, n, members)}
    IN  IF ByName(set, n) # {} THEN {}
        ELSE IF allocate THEN UNION {allocateStackDocumentPorts(d, set) : d \in built}
        ELSE built

\* BuildCloneStackCandidate before it is validated; doc is the raw document of the source.
CloneCandidates(set, doc, source, target, allocate) ==
    LET copy == rewriteSubscriptionRemarksInNode(
                    rewriteSelfRefsInNode([doc EXCEPT !.name = target], source, target),
                    source, target)
    IN  IF ByName(set, target) # {} THEN {}
        ELSE IF allocate THEN allocateStackDocumentPorts(copy, set) ELSE {copy}

\* ensureRelayMember
ensureRelayMember(set, m) ==
    \E s \in ByName(set, m) : \E i \in ToSet(s.xray.inbounds) :
        i.name = "relay" /\ i.protocol = "socks5"

\* stackCandidateFromDocument, writeExistingStackDocument and validateEditTarget: the set with
\* the document in place of the one of that name, or at its end, is valid.
CandidateValid(set, n, doc) ==
    LET others == Keep(set.stacks, LAMBDA s : s.name # n)
        next == [set EXCEPT !.stacks = Append(others, doc)]
    IN  LoadableStack(n, doc) /\ Resolvable(next)
        /\ ValidateStackSet(ResolveStackSetUserRefs(next), {})
=============================================================================
