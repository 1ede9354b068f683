--------------------------- MODULE MCMetadataUpdate ---------------------------
(* Instances of MetadataUpdate for TLC: two commands at a time on one part, *)
(* or on two parts with a common metageneration.                            *)
EXTENDS MetadataUpdate, TLC

CONSTANTS c1, c2, owner, other

TwoClients == {c1, c2}
TwoKeys == {owner, other}
ThreeVals == {1, 2, 3}
OneEntry == owner :> 1 @@ other :> None

Set(k, v) == [key |-> k, val |-> v]
Del(k) == [key |-> k, val |-> None]
Grant(r, m) == [grant |-> TRUE, role |-> r, member |-> m]
Drop(r, m) == [grant |-> FALSE, role |-> r, member |-> m]

Do(op_, change_) == [op |-> op_, change |-> change_]

OnBucketAcl == <<Do("aclBucket", <<Set(other, 1)>>),
                 Do("aclBucket", <<Set(owner, 2), Del(other)>>),
                 Do("aclSet", <<Set(owner, 2)>>)>>
OnDefacl == <<Do("defacl", <<Set(other, 2), Del(owner)>>), Do("defacl", <<Del(owner)>>)>>
OnObject == <<Do("aclObject", <<Set(other, 1)>>), Do("aclObject", <<Set(owner, 2)>>),
              Do("setmeta", <<Set(other, 2)>>), Do("setmeta", <<Del(owner)>>)>>
OnPolicy == <<Do("iamCh", <<Grant(owner, 2)>>),
              Do("iamCh", <<Drop(DropAll, 1), Grant(other, 1)>>),
              Do("iamSet", <<Grant(other, 2)>>)>>
OnLabels == <<Do("labelCh", <<Set(other, 1)>>), Do("labelSet", <<Set(other, 2)>>),
              Do("labelCh", <<Del(owner), Set(other, 2)>>)>>
OnRetention == <<Do("lock", <<>>)>>

\* The last entry of an ACL.
RemoveBucketEntry == Do("aclBucket", <<Del(owner)>>)
RemoveObjectEntry == Do("aclObject", <<Del(owner)>>)

\* WRITER, where it applies and where it does not.
BucketWriter == Do("aclBucket", <<Set(owner, 3)>>)
ObjectWriter == Do("aclObject", <<Set(owner, 3), Set(other, 2)>>)
OnlyWriter == Do("aclObject", <<Set(other, 3)>>)
DefaultWriter == Do("defacl", <<Set(other, 3)>>)

\* Each two of the same part, and some of two parts.
Both(a, b) == c1 :> a @@ c2 :> b
Twos(s) == {Both(s[i], s[j]) : <<i, j>> \in {ij \in (1..Len(s)) \X (1..Len(s)) : ij[1] <= ij[2]}}

SomePlans ==
    Twos(OnBucketAcl) \cup Twos(OnDefacl) \cup Twos(OnObject) \cup Twos(OnPolicy)
    \cup Twos(OnLabels) \cup Twos(OnRetention)
    \cup {Both(OnBucketAcl[1], OnLabels[2]), Both(OnRetention[1], OnDefacl[1]),
          Both(RemoveBucketEntry, OnBucketAcl[1]), Both(RemoveBucketEntry, BucketWriter),
          Both(RemoveObjectEntry, OnObject[1]), Both(ObjectWriter, OnObject[1]),
          Both(OnlyWriter, OnObject[4]), Both(DefaultWriter, OnDefacl[1])}
=============================================================================
