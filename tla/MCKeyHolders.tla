----------------------------- MODULE MCKeyHolders -----------------------------
(***************************************************************************)
(* KeyHolders with a sender and a fee payer, whose addresses are derived   *)
(* from k1 and k2, and two accounts in the legacy wallet.                  *)
(***************************************************************************)
EXTENDS KeyHolders, TLC

CONSTANTS k1, k2, a1, a2, b1, b2

TwoKeys == {k1, k2}
TwoAddresses == {a1, a2}
TwoLegacyAddresses == {b1, b2}
OnePayer == {a2}
Derived == (a1 :> k1) @@ (a2 :> k2)

SomeKeyrings ==
  (a1 :> {SingleKeyring(k1),
          MultipleKeyring(<<k1>>),
          MultipleKeyring(<<k1, k2>>),
          MultipleKeyring(<<k1, k1>>),
          RoleBasedKeyring(<< <<k1>>, <<k2>>, <<k1, k2>> >>),
          RoleBasedKeyring(<< << >>, <<k2>>, << >> >>)})
  @@
  (a2 :> {SingleKeyring(k2),
          RoleBasedKeyring(<< <<k2>>, << >>, << >> >>),
          RoleBasedKeyring(<< <<k2>>, <<k1, k2>>, <<k1>> >>)})

Threshold2 == [threshold |-> 2, weights |-> <<1, 1>>]
SomeOptions == {
  << >>,
  <<Threshold2>>,
  <<EmptyOptions, EmptyOptions, Threshold2>>,
  [r \in {1, 3} |-> EmptyOptions]}
OneShort == { << <<k1>> >> }

RoleBasedContent ==
  RoleBasedKey([r \in LegacyRoles |-> IF r = "transactionKey" THEN k2 ELSE Nothing])
OtherContent ==
  RoleBasedKey([r \in LegacyRoles |-> IF r = "transactionKey" THEN Nothing ELSE k1])
SomeContents == {PublicKey(k1), RoleBasedContent}
TwoArrays == {
  <<[address |-> b1, content |-> PublicKey(k2)], [address |-> b2, content |-> PublicKey(k2)]>>,
  <<[address |-> b2, content |-> PublicKey(k2)], [address |-> b1, content |-> PublicKey(k2)]>>}

SomeInterfaces == {
  <<Method("f", <<"int">>), Method("f", <<"bytes">>), Method("f", <<"string">>),
    Method("f", <<"int", "int">>), Constructor(<<"bytes">>),
    Event("E", <<"x">>, FALSE), Event("E", <<"x", "y">>, FALSE)>>,
  <<Constructor(<<"int", "int">>), Method("g", << >>), Method("g", <<"int">>),
    Event("E", <<"y">>, FALSE), Event("A", <<"x">>, TRUE)>>,
  <<Method("g", <<"int">>)>>}
Number == {"int"}
Text == {"string"}
HexString == {"bytes", "string"}
SomeArguments ==
  {<< >>, <<Number>>, <<Text>>, <<HexString>>, <<Number, Number>>, <<Number, HexString>>}
SomeCodes == {"code1", "code2"}
SomeFilters ==
  {<< >>} \union [{"x"} -> {Only(0), Only(1), AnyOf({}), AnyOf({0}), AnyOf({0, 1})}]
          \union [{"x", "y"} -> {Only(1)}]

KIP13 == Kip13Ids.true
IdsOf(standard) == Range(InterfaceIds[standard])
SomeContracts ==
  {{}, {KIP13}, {KIP13, Kip13Ids.false} \union IdsOf("KIP7"), IdsOf("KIP37")}
  \union {{KIP13} \union IdsOf(s) : s \in Standards}
  \union {({KIP13} \union IdsOf(s)) \ {InterfaceIds[s][Basic[s]]} : s \in Standards}

Symmetry == Permutations(TwoLegacyAddresses)
=============================================================================
