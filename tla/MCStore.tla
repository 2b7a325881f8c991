------------------------------ MODULE MCStore ------------------------------
(* RedisHashStore and its properties on small instances. *)
EXTENDS StoreProperties, TLC

CONSTANTS h1, h2, a, b

OneFrame == {0}
NoCommand == {}
AnyCommand == {"SELECT", "EXISTS", "HMSET", "HGETALL", "DEL", "LPUSH", "LREM", "LRANGE",
               "LLEN", "DBSIZE", "KEYS"}
LastOfPipeline == AnyCommand \ {"SELECT", "LRANGE"}

AllOps == {"Put", "Get", "DeleteHash", "DeleteId", "Count", "CountId", "Entries"}
PutAndDelete == {"Put", "DeleteHash"}
PutOnly == {"Put"}

Either == BOOLEAN

Symmetry == Permutations(Clients) \cup Permutations(Hashes) \cup Permutations(Ids)
=============================================================================
