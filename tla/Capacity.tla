-------------------------------- MODULE Capacity --------------------------------
(***************************************************************************)
(* The check that the Pods a drain evicts fit on the remaining nodes       *)
(* (src/tools/nix-deploy/k8snode/capacity.go): how much a Pod's            *)
(* replacement will ask for, the spreading as the scheduler's, and the     *)
(* bounded search for another placement when the spreading leaves one out. *)
(*                                                                         *)
(* A Pod's labels and namespace are its app; the remaining nodes it may    *)
(* run on, by selector, affinity and taints, are its nodes.  Pod-level     *)
(* requests, overhead and LimitRange defaults are left out.                *)
(***************************************************************************)
EXTENDS Integers, FiniteSets, SequencesExt

CONSTANTS Inputs,  \* clusters: [room, residents, pods], see TypeOK
          Budget   \* packBudget

VARIABLES
    in,      \* the cluster as read
    size,    \* what each Pod's replacement is counted to ask for
    at,      \* where the check is
    queue,   \* the Pods still to spread, or the order of the search
    free,    \* roomyNode.free
    placed,  \* roomyNode.placed
    chosen,  \* the node each Pod of the search is placed on
    left,    \* the candidates each Pod of the search has left
    steps,   \* the placements tried
    out      \* the Pods the spreading left out, and the verdict

vars == <<in, size, at, queue, free, placed, chosen, left, steps, out>>

-----------------------------------------------------------------------------
(* Requests *)

Zero == [cpu |-> 0, memory |-> 0]
Larger(x, y) == IF x >= y THEN x ELSE y
Plus(a, b) == [cpu |-> a.cpu + b.cpu, memory |-> a.memory + b.memory]
Minus(a, b) == [cpu |-> a.cpu - b.cpu, memory |-> a.memory - b.memory]
Most(a, b) == [cpu |-> Larger(a.cpu, b.cpu), memory |-> Larger(a.memory, b.memory)]
Fits(a, room) == a.cpu <= room.cpu /\ a.memory <= room.memory
Total(S, f(_)) == FoldSet(LAMBDA x, sum : Plus(f(x), sum), Zero, S)
Peak(S, f(_)) == FoldSet(LAMBDA x, most : Most(f(x), most), Zero, S)

Names(list) == {list[i].name : i \in DOMAIN list}
Sidecars(list) == {list[i].name : i \in {i \in DOMAIN list : list[i].sidecar}}
Containers(spec) == ToSet(spec.containers) \cup ToSet(spec.init)

\* heldRequests, of a Pod that is not being resized.
PodRequests(spec) ==
    LET request(c) == c.requests
        before(i) == {spec.init[k] : k \in {k \in 1 .. i - 1 : spec.init[k].sidecar}}
        sidecars == {c \in ToSet(spec.init) : c.sidecar}
        running(i) == Plus(spec.init[i].requests, Total(before(i), request))
    IN  Most(Total(ToSet(spec.containers) \cup sidecars, request),
             Peak({i \in DOMAIN spec.init : ~ spec.init[i].sidecar}, running))

\* Mutant: a side without the init container has none of its sidecars beside it.
BesideOwnOnly(list, name) ==
    LET at0 == {i \in DOMAIN list : list[i].name = name}
    IN  {list[k].name : k \in {k \in DOMAIN list : list[k].sidecar /\ \E i \in at0 : k < i}}

\* The sidecars of one side that may run beside an init container: those
\* before it, or all of a side that does not have it.
Beside(list, name) ==
    LET at0 == {i \in DOMAIN list : list[i].name = name}
    IN  {list[k].name : k \in {k \in DOMAIN list : list[k].sidecar /\ \A i \in at0 : k < i}}

\* replacementRequests: a bound from the Pod and the template it comes back from.
ReplacementRequests(pod, template) ==
    LET all == Containers(pod) \cup Containers(template)
        largest(name) == Peak({c \in all : c.name = name}, LAMBDA c : c.requests)
        app == Names(pod.containers) \cup Names(template.containers)
        sidecars == Sidecars(pod.init) \cup Sidecars(template.init)
        inits == (Names(pod.init) \ Sidecars(pod.init)) \cup (Names(template.init) \ Sidecars(template.init))
        peak(name) == Plus(largest(name),
                           Total(Beside(pod.init, name) \cup Beside(template.init, name), largest))
    IN  Most(Plus(Total(app, largest), Total(sidecars, largest)), Peak(inits, peak))

-----------------------------------------------------------------------------
(* Nodes and Pods *)

Node == DOMAIN in.room
Pod == DOMAIN in.pods

Repels(a, b) == b.app \in a.avoid
Conflict(a, b) == Repels(a, b) \/ Repels(b, a)

\* admits and claimed, beside the Pods in here.
MayRun(j, k, here) ==
    /\ j \in in.pods[k].nodes
    /\ \A p \in in.residents[j] \cup {in.pods[q] : q \in here} : ~ Conflict(p, in.pods[k])
Admits(j, k) == MayRun(j, k, placed[j])
Eligible(k) == {j \in Node : MayRun(j, k, {})}

\* freeShare, scaled by the product of the node's allocatable amounts.
Scale(j) == in.room[j].alloc.cpu * in.room[j].alloc.memory
Share(j) == free[j].cpu * in.room[j].alloc.memory + free[j].memory * in.room[j].alloc.cpu
MoreFree(i, j) == Share(i) * Scale(j) > Share(j) * Scale(i)

Bigger(k, q) == LET a == size[k]  b == size[q]
                IN  a.cpu > b.cpu \/ (a.cpu = b.cpu /\ a.memory > b.memory)
\* largestFirst, which keeps the order of equals.
LargestFirst(pods) == SetToSortSeq(pods, LAMBDA k, q : Bigger(k, q) \/ (~ Bigger(q, k) /\ k < q))

Init ==
    /\ in \in Inputs
    /\ size = [k \in Pod |-> ReplacementRequests(in.pods[k].spec, in.pods[k].template)]
    /\ at = "spread" /\ queue = LargestFirst(Pod)
    /\ free = [j \in Node |-> in.room[j].free] /\ placed = [j \in Node |-> {}]
    /\ chosen = <<>> /\ left = <<>> /\ steps = 0
    /\ out = [noRoom |-> {}, barred |-> {}, unplaced |-> {}, unsure |-> {}]

-----------------------------------------------------------------------------
(* place: the scheduler's spreading *)

Put(j, k) == /\ free' = [free EXCEPT ![j] = Minus(@, size[k])]
             /\ placed' = [placed EXCEPT ![j] = @ \cup {k}]

\* One Pod goes on the node that admits it with the largest free share.
Spread ==
    LET k == Head(queue)
        admitted == {j \in Node : Admits(j, k)}
        roomy == {j \in admitted : Fits(size[k], free[j])}
    IN
    /\ at = "spread" /\ queue # <<>>
    /\ queue' = Tail(queue)
    /\ \/ roomy # {} /\ UNCHANGED out
          /\ Put(CHOOSE j \in roomy : \A i \in roomy : MoreFree(j, i) \/ (~ MoreFree(i, j) /\ j <= i), k)
       \/ roomy = {} /\ UNCHANGED <<free, placed>>
          /\ out' = IF admitted = {} THEN [out EXCEPT !.barred = @ \cup {k}]
                    ELSE [out EXCEPT !.noRoom = @ \cup {k}]
    /\ UNCHANGED <<in, size, at, chosen, left, steps>>

Done(unplaced, unsure) ==
    /\ at' = "done" /\ out' = [out EXCEPT !.unplaced = unplaced, !.unsure = unsure]
    /\ queue' = <<>> /\ chosen' = <<>> /\ left' = <<>>

Excluded == {k \in Pod : Eligible(k) = {}}
Missed == out.noRoom \cup out.barred

\* pack's order: the fewest eligible nodes first, then the largest.
SearchOrder ==
    LET order == LargestFirst(Pod \ Excluded)
        place(k) == CHOOSE i \in DOMAIN order : order[i] = k
        fewer(k, q) == Cardinality(Eligible(k)) < Cardinality(Eligible(q))
    IN  SetToSortSeq(Pod \ Excluded, LAMBDA k, q : fewer(k, q) \/ (~ fewer(q, k) /\ place(k) < place(q)))

\* placeNeeded after the spreading: it placed all, or the room is as before
\* and the search for the Pods some node may run begins.
Settle ==
    LET room == [cpu |-> FoldSet(LAMBDA j, sum : sum + Larger(in.room[j].free.cpu, 0), 0, Node),
                 memory |-> FoldSet(LAMBDA j, sum : sum + Larger(in.room[j].free.memory, 0), 0, Node)]
    IN
    /\ at = "spread" /\ queue = <<>>
    /\ \/ /\ Missed = {} /\ Done({}, {}) /\ UNCHANGED <<free, placed, steps>>
       \/ /\ Missed # {}
          /\ free' = [j \in Node |-> in.room[j].free] /\ placed' = [j \in Node |-> {}]
          /\ UNCHANGED steps
          /\ IF ~ Fits(Total(Pod \ Excluded, LAMBDA k : size[k]), room) THEN Done(Missed, {})
             ELSE IF Pod = Excluded THEN Done(Excluded, {})
             ELSE at' = "list" /\ queue' = SearchOrder /\ UNCHANGED <<chosen, left, out>>
    /\ UNCHANGED <<in, size>>

-----------------------------------------------------------------------------
(* pack: the search *)

\* Mutant: Pods of one app are interchangeable whatever they ask for.
AlikeByApp(k, q) ==
    /\ in.pods[k].app = in.pods[q].app
    /\ in.pods[k].avoid = {} /\ in.pods[q].avoid = {} /\ Eligible(k) = Eligible(q)

Alike(k, q) ==
    /\ in.pods[k].app = in.pods[q].app
    /\ in.pods[k].avoid = {} /\ in.pods[q].avoid = {} /\ Eligible(k) = Eligible(q)
    /\ size[k] = size[q]

\* The nodes the next Pod may go on, tightest first; one interchangeable with
\* the Pod before it goes on the same or a later node.
List ==
    LET i == Len(left) + 1
        k == queue[i]
        lowest == IF i > 1 /\ Alike(queue[i - 1], k) THEN chosen[i - 1] ELSE 1
        fit == {j \in Node : j >= lowest /\ Fits(size[k], free[j]) /\ Admits(j, k)}
    IN
    /\ at = "list" /\ at' = "try"
    /\ left' = Append(left, SetToSortSeq(fit, LAMBDA a, b : MoreFree(b, a) \/ (~ MoreFree(a, b) /\ a < b)))
    /\ UNCHANGED <<in, size, queue, free, placed, chosen, steps, out>>

\* The next candidate is tried: the last Pod settles the search.
Try ==
    LET i == Len(left)
        j == Head(left[i])
    IN
    /\ at = "try" /\ left[i] # <<>> /\ steps < Budget
    /\ steps' = steps + 1 /\ Put(j, queue[i])
    /\ IF i = Len(queue) THEN Done(Excluded, {})
       ELSE /\ at' = "list" /\ chosen' = Append(chosen, j)
            /\ left' = [left EXCEPT ![i] = Tail(@)] /\ UNCHANGED <<queue, out>>
    /\ UNCHANGED <<in, size>>

GiveUp ==
    /\ at = "try" /\ Last(left) # <<>> /\ steps = Budget
    /\ Done(Excluded, Missed \ Excluded)
    /\ UNCHANGED <<in, size, free, placed, steps>>

\* No candidate is left: the Pod before is taken back, or nothing fits.
Back ==
    /\ at = "try" /\ Last(left) = <<>>
    /\ IF Len(left) = 1 THEN Done(Missed, {}) /\ UNCHANGED <<free, placed>>
       ELSE LET i == Len(left) - 1  j == chosen[i]  k == queue[i] IN
            /\ free' = [free EXCEPT ![j] = Plus(@, size[k])]
            /\ placed' = [placed EXCEPT ![j] = @ \ {k}]
            /\ chosen' = Front(chosen) /\ left' = Front(left) /\ UNCHANGED <<at, queue, out>>
    /\ UNCHANGED <<in, size, steps>>

Next == Spread \/ Settle \/ List \/ Try \/ GiveUp \/ Back

Spec == Init /\ [][Next]_vars /\ WF_vars(Next)

-----------------------------------------------------------------------------
(* Properties *)

\* The type invariant.
TypeOK ==
    /\ in \in Inputs /\ at \in {"spread", "list", "try", "done"}
    /\ queue \in Seq(Pod) /\ chosen \in Seq(Node) /\ \A i \in DOMAIN left : left[i] \in Seq(Node)
    /\ placed \in [Node -> SUBSET Pod] /\ DOMAIN free = Node
    /\ steps \in 0 .. Budget
    /\ \A f \in DOMAIN out : out[f] \subseteq Pod

\* The specs a Pod's replacement may have: the template's, with any of the
\* containers admission added to the Pod, in the template's order and, beside
\* what it added, the Pod's.
Replacements(pod, template) ==
    LET added(list, base) == {c \in ToSet(list) : c.name \notin Names(base)}
        place(list, name) == CHOOSE i \in DOMAIN list : list[i].name = name
        order(a, b) == IF {a, b} \subseteq Names(template.init) THEN template.init ELSE pod.init
        mixes(own) == {m \in SetToSeqs(ToSet(template.init) \cup own) :
            \A a, b \in Names(m) : LET by == order(a, b) IN
                {a, b} \subseteq Names(by) =>
                    (place(m, a) < place(m, b) <=> place(by, a) < place(by, b))}
    IN  {[containers |-> template.containers \o SetToSeq(app), init |-> m] :
            app \in SUBSET added(pod.containers, template.containers),
            m \in UNION {mixes(own) : own \in SUBSET added(pod.init, template.init)}}

\* Whether all Pods fit at once when each asks for its size.
CanPlace ==
    \E f \in [Pod -> Node] :
        /\ \A k \in Pod : MayRun(f[k], k, {q \in Pod \ {k} : f[q] = f[k]})
        /\ \A j \in Node : LET here == {k \in Pod : f[k] = j}
                           IN here = {} \/ Fits(Total(here, LAMBDA k : size[k]), in.room[j].free)

\* The verdict is right whatever order the spreading and the search took, which
\* interchangeable Pods the search skipped and which containers admission adds
\* (placeNeeded, pack, replacementRequests): when the check passes, the real
\* replacements fit together; when it refuses, the Pods it sized do not.
VerdictIsRight ==
    at = "done" =>
        /\ out.unplaced # {} => ~ CanPlace
        /\ (out.unplaced = {} /\ out.unsure = {}) =>
              /\ CanPlace
              /\ \A k \in Pod : \A r \in Replacements(in.pods[k].spec, in.pods[k].template) :
                    Fits(PodRequests(r), size[k])
================================================================================
