---------------------------- MODULE MCOperators ----------------------------
(* Tensors and arguments for TLC.  Leaf widths are chosen by their relation *)
(* to the unit of ownership: half a word, a field that crosses words, one   *)
(* word and two words.  Five columns fill one tile and start a second.      *)
EXTENDS Operators

MCLeafBits == [half |-> 4, cross |-> 6, word |-> 8, double |-> 16]

Tensor(dims, leaf, base) == [dims |-> dims, leaf |-> leaf, device |-> "dev1", base |-> 512 * base]

(* F lives on another device.                                               *)
MCOwners ==
    [Mhalf |-> Tensor(<<2, 2, 1, 5>>, "half", 1), Mcross |-> Tensor(<<2, 2, 1, 5>>, "cross", 2),
     Mword |-> Tensor(<<2, 2, 1, 5>>, "word", 3), Mdouble |-> Tensor(<<2, 2, 1, 5>>, "double", 4),
     Nhalf |-> Tensor(<<2, 2, 1, 5>>, "half", 5), Ncross |-> Tensor(<<2, 2, 1, 5>>, "cross", 6),
     Nword |-> Tensor(<<2, 2, 1, 5>>, "word", 7), Ndouble |-> Tensor(<<2, 2, 1, 5>>, "double", 8),
     Yhalf |-> Tensor(<<2, 1, 5>>, "half", 9), Ycross |-> Tensor(<<2, 1, 5>>, "cross", 10),
     Yword |-> Tensor(<<2, 1, 5>>, "word", 11), Ydouble |-> Tensor(<<2, 1, 5>>, "double", 12),
     Uhalf |-> Tensor(<<1, 1>>, "half", 13), Ucross |-> Tensor(<<1, 1>>, "cross", 14),
     Thalf |-> Tensor(<<3, 5>>, "half", 15), Tcross |-> Tensor(<<3, 5>>, "cross", 16),
     Ihalf |-> Tensor(<<2, 1, 2>>, "half", 17), Iword |-> Tensor(<<2, 1, 2>>, "word", 18),
     Ehalf |-> Tensor(<<2, 2, 5>>, "half", 19), Ecross |-> Tensor(<<2, 2, 5>>, "cross", 20),
     Ahalf |-> Tensor(<<2, 2, 6>>, "half", 21), Across |-> Tensor(<<2, 2, 6>>, "cross", 22),
     Aword |-> Tensor(<<2, 2, 6>>, "word", 23), Adouble |-> Tensor(<<2, 2, 6>>, "double", 24),
     Bhalf |-> Tensor(<<2, 2, 6>>, "half", 25), Bcross |-> Tensor(<<2, 2, 6>>, "cross", 26),
     Bword |-> Tensor(<<2, 2, 6>>, "word", 27), Bdouble |-> Tensor(<<2, 2, 6>>, "double", 28),
     Shalf |-> Tensor(<<1, 6>>, "half", 29), Scross |-> Tensor(<<1, 6>>, "cross", 30),
     Sword |-> Tensor(<<1, 6>>, "word", 31),
     Chalf |-> Tensor(<<2, 5, 6>>, "half", 32), Ccross |-> Tensor(<<2, 5, 6>>, "cross", 33),
     Cword |-> Tensor(<<2, 5, 6>>, "word", 34),
     Lhalf |-> Tensor(<<2, 3, 3>>, "half", 35), Lcross |-> Tensor(<<2, 3, 3>>, "cross", 36),
     Lword |-> Tensor(<<2, 3, 3>>, "word", 37),
     Whalf |-> Tensor(<<4, 3>>, "half", 38), Wcross |-> Tensor(<<4, 3>>, "cross", 39),
     Wword |-> Tensor(<<4, 3>>, "word", 40),
     Dhalf |-> Tensor(<<2, 2, 4>>, "half", 41), Dcross |-> Tensor(<<2, 2, 4>>, "cross", 42),
     Dword |-> Tensor(<<2, 2, 4>>, "word", 43),
     Phalf |-> Tensor(<<2, 2, 2, 2>>, "half", 44), Pcross |-> Tensor(<<2, 2, 2, 2>>, "cross", 45),
     Pword |-> Tensor(<<2, 2, 2, 2>>, "word", 46),
     Qhalf |-> Tensor(<<2, 2, 2>>, "half", 47), Qcross |-> Tensor(<<2, 2, 2>>, "cross", 48),
     Qword |-> Tensor(<<2, 2, 2>>, "word", 49),
     Khalf |-> Tensor(<<1, 6, 2>>, "half", 50), Kcross |-> Tensor(<<1, 6, 2>>, "cross", 51),
     Kword |-> Tensor(<<1, 6, 2>>, "word", 52),
     Vhalf |-> Tensor(<<1, 6, 2>>, "half", 53), Vcross |-> Tensor(<<1, 6, 2>>, "cross", 54),
     Vword |-> Tensor(<<1, 6, 2>>, "word", 55),
     Ohalf |-> Tensor(<<2, 4>>, "half", 56), Ocross |-> Tensor(<<2, 4>>, "cross", 57),
     Oword |-> Tensor(<<2, 4>>, "word", 58),
     Ghalf |-> Tensor(<<3, 1, 5>>, "half", 60), Gcross |-> Tensor(<<3, 1, 5>>, "cross", 61),
     Fhalf |-> [Tensor(<<2, 2, 6>>, "half", 59) EXCEPT !.device = "dev2"]]

Name(f, l) == f \o l

Choice(name, roles, leaf) == [op |-> name, views |-> [r \in DOMAIN roles |-> Name(roles[r], leaf)]]

XOut(x, out) == [x |-> x, out |-> out]
XYOut(x, y, out) == [x |-> x, y |-> y, out |-> out]

MCStarts ==
    {Choice("copy", r, l) : r \in {XOut("M", "N"), XOut("M", "M")}, l \in {"half", "cross"}}
      \cup {Choice("from_host", [out |-> "M"], l) : l \in {"half", "cross", "double"}}
      \cup {Choice("to_host", [x |-> "M"], l) : l \in {"half", "cross", "double"}}
      \cup {Choice("binary", XYOut("M", "Y", "N"), l) : l \in {"half", "cross", "word", "double"}}
      \cup {Choice("binary", r, l) : r \in {XYOut("M", "U", "M"), XYOut("Y", "M", "M"), XYOut("M", "M", "M"),
                                           XYOut("G", "U", "G")},
                                     l \in {"half", "cross"}}
      \cup {[op |-> "embedding", views |-> XYOut(Name("T", l), i, Name("E", l))] :
                l \in {"half", "cross"}, i \in {"Iword", "Ihalf"}}
      \cup {Choice("rmsnorm", r, l) : r \in {XYOut("A", "S", "B"), XYOut("A", "S", "A")}, l \in {"half", "cross", "word"}}
      \cup {Choice("silu", r, l) : r \in {XOut("A", "B")}, l \in {"half", "cross", "double"}}
      \cup {Choice("silu", XOut("A", "F"), "half")}
      \cup {Choice("rope", XOut("A", "B"), l) : l \in {"half", "cross", "double"}}
      \cup {Choice("cache_append", XOut("A", "C"), l) : l \in {"half", "cross", "word"}}
      \cup {Choice("linear", XYOut("L", "W", out), l) : out \in {"D", "P"}, l \in {"half", "cross", "word"}}
      \cup {Choice("sdpa", [x |-> "Q", y |-> "K", z |-> "V", out |-> "O"], l) : l \in {"half", "cross", "word"}}

MCSliceArgs == { <<1, 1, 1, 1>>, <<2, 0, 1, 1>>, <<1, 0, 2, 1>>, <<1, 1, 2, 1>>, <<1, 1, SizeMax, SizeMax>> }
MCReshapeArgs == { <<4>>, <<1, 2>>, <<SizeMax, 2>> }

None == << >>
MCScalars ==
    [copy |-> {None}, from_host |-> {[bytes |-> n] : n \in {5, 10, 15, 20, 40}},
     to_host |-> {[bytes |-> n] : n \in {5, 10, 15, 20, 40}},
     binary |-> {[div |-> d] : d \in BOOLEAN},
     embedding |-> {[ids |-> <<0, 2>>], [ids |-> <<1, 3>>]},
     rmsnorm |-> {None}, silu |-> {None}, rope |-> {[a |-> n] : n \in {0, 2, SizeMax}},
     cache_append |-> {[a |-> n] : n \in {0, 3, 4, SizeMax}},
     linear |-> {[s |-> s, rows |-> 2, planar |-> p, h |-> IF p THEN 2 ELSE 1, d |-> IF p THEN 2 ELSE 4] :
                    s \in {0, 1, 2}, p \in BOOLEAN}
                  \cup {[s |-> 0, rows |-> 2, planar |-> TRUE, h |-> SizeMax, d |-> 2]},
     sdpa |-> {[a |-> a, l |-> l] : a \in {0, 1, 4, 5}, l \in {2, 5}}]

MCWorkspaces == { [base |-> 65536, bytes |-> 8192], [base |-> 65540, bytes |-> 8192],
                  [base |-> 65536, bytes |-> 64], [base |-> 0, bytes |-> 65536],
                  [base |-> 0, bytes |-> 0] }
=============================================================================
