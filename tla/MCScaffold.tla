------------------------------ MODULE MCScaffold ------------------------------
EXTENDS Scaffold, ScaffoldPaths

ProtoBases ==
  [name \in {"order.proto", "orders.proto", ".proto"} |->
     CASE name = "order.proto" -> "order" [] name = "orders.proto" -> "orders" [] OTHER -> ""]

\* The modules, by what is typed for them.
OrderProto == NormalizeProtoPath(<<".", "order", "v1", "order.proto">>)
ShopOrderProto == NormalizeProtoPath(<<"shop", "..", "shop", "order", "v1", "order.proto">>)

OrderProtoV2 == NormalizeProtoPath(<<"order", "v2", "order.proto">>)

\* Two modules with the same file names: one inside the other's directory, or two versions.
Namesakes == {OrderProto, ShopOrderProto}
Versions == {OrderProto, OrderProtoV2}

Spelling ==
  [b \in {"order", "orders"} |->
     <<"o", "r", "d", "e", "r">> \o IF b = "orders" THEN <<"s">> ELSE <<>>]

SingularOrder ==
  [b \in DOMAIN Spelling |-> CHOOSE c \in DOMAIN Spelling : Spelling[c] = Singularize(Spelling[b])]

UpToLength(n, S) == UNION {[1 .. k -> S] : k \in 1 .. n}

ShortPaths == UpToLength(5, {"", ".", "..", "api", "v1", "order.proto", ".proto"})
ShortWords == UpToLength(4, {"s", "x", "z", "e", "i", "y", "a", "t"})
SmallModules == [dir : UpToLength(3, {"shop", "order", "v1"}), base : {"order", "orders"}]

=============================================================================
