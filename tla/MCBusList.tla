------------------------------ MODULE MCBusList ------------------------------
EXTENDS BusList, TLC

\* Descriptors of a class, short and as long as an interface's.
MCClass == {Descriptor("class", 2, 0, 0), Descriptor("class", 9, 0, 0)}

MCExtra == {<<>>} \union {<<d>> : d \in MCClass}

MCEndpoints ==
  LET e == [length |-> 7, extra |-> <<>>]
      audio == [length |-> 9, extra |-> <<Descriptor("class", 9, 0, 0), Descriptor("class", 2, 0, 0)>>]
  IN {<<>>, <<e>>, <<audio>>, <<audio, e>>}

MCSettings == {[extra |-> x, endpoints |-> e] : x \in MCExtra, e \in MCEndpoints}

MCInterfaces == {<<s>> : s \in MCSettings} \union {<<s, t>> : s \in MCSettings, t \in MCSettings}

MCConfigurations ==
  {[extra |-> x, interfaces |-> <<i>>] : x \in MCExtra, i \in MCInterfaces}
  \union {[extra |-> <<>>, interfaces |-> <<i, j>>] :
            i \in MCInterfaces, j \in {<<s>> : s \in MCSettings}}

MCSymmetry == Permutations(Nodes) \union Permutations(Models)
=============================================================================
