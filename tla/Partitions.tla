----------------------------- MODULE Partitions -----------------------------
(* The partition algebra of resource/partition.ts: what a resource claim       *)
(* names, when one partition covers another and when two claims conflict.      *)
(* A segmented value (a path, a logical key, an object id) is the sequence of  *)
(* its segments; Unicode and case folding are left out of the data.            *)
EXTENDS Naturals, Sequences

Wildcard == "*"

-----------------------------------------------------------------------------
(* normalizeSegmentedValue drops empty and "." segments and throws on "..", on *)
(* a wildcard where none is allowed and when nothing is left.                  *)
Significant(segment) == segment \notin {"", "."}
Normalized(raw) == SelectSeq(raw, Significant)
AcceptedPartition(raw, allowWildcard) ==
    /\ \A i \in DOMAIN raw : /\ raw[i] # ".."
                             /\ raw[i] = Wildcard => allowWildcard
    /\ Normalized(raw) # << >>

-----------------------------------------------------------------------------
(* A mutant of SegmentPatternCovers: the lengths are not compared.             *)
PrefixPatternCovers(pattern, concrete) ==
    /\ Len(pattern) <= Len(concrete)
    /\ \A i \in DOMAIN pattern : pattern[i] \in {Wildcard, concrete[i]}

(* A pattern covers a value of its own length, segment by segment.             *)
SegmentPatternCovers(pattern, concrete) ==
    /\ Len(pattern) = Len(concrete)
    /\ \A i \in DOMAIN pattern : pattern[i] \in {Wildcard, concrete[i]}

(* A path covers itself and everything below it.                               *)
PathCovers(parent, child) ==
    /\ Len(parent) <= Len(child)
    /\ \A i \in DOMAIN parent : parent[i] = child[i]

FieldCovers(parent, child) == parent \in {Wildcard, child}

(* partitionCovers, by the kinds of the two partitions.                        *)
PartitionCovers(parent, child) ==
    \/ /\ parent.kind = "repository"
       /\ child.kind \in {"repository", "worktree"}
       /\ parent.repositoryId = child.repositoryId
    \/ /\ parent.kind = "worktree" /\ child.kind = "worktree"
       /\ parent.repositoryId = child.repositoryId
       /\ parent.workspaceId = child.workspaceId
    \/ /\ parent.kind = "path" /\ child.kind = "path"
       /\ parent.mountId = child.mountId
       /\ PathCovers(parent.path, child.path)
    \/ /\ parent.kind = "logical" /\ child.kind = "logical"
       /\ FieldCovers(parent.namespace, child.namespace)
       /\ SegmentPatternCovers(parent.key, child.key)
    \/ /\ parent.kind = "external_object" /\ child.kind = "external_object"
       /\ FieldCovers(parent.provider, child.provider)
       /\ FieldCovers(parent.account, child.account)
       /\ FieldCovers(parent.collection, child.collection)
       /\ SegmentPatternCovers(parent.objectId, child.objectId)

(* A mutant of PartitionsOverlap: only the first partition may be the larger.  *)
FirstCoversSecond(left, right) == PartitionCovers(left, right)

PartitionsOverlap(left, right) ==
    PartitionCovers(left, right) \/ PartitionCovers(right, left)

(* Two claims conflict when they overlap and one of them writes.               *)
ResourceClaimsConflict(left, right) ==
    /\ PartitionsOverlap(left.partition, right.partition)
    /\ "write" \in {left.access, right.access}
=============================================================================
