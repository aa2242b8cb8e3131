----------------------------- MODULE MCCrack -----------------------------
(* Neighbours of every model: all short passwords over small alphabets, and *)
(* the longest and latest passwords over the real ones.                     *)
EXTENDS Crack

Lossy(n, m, pws, alphas, hbs, diffs, salts) ==
  [model : {m}, pw : pws, alpha : alphas, hb : hbs, difficulty : diffs, salt : salts, losses : {n}]
Job(m, pws, alphas, hbs, diffs, salts) == Lossy(1, m, pws, alphas, hbs, diffs, salts)

Words(n, k) == [1..n -> 1..k]
Numbers(s) == {<<n>> : n \in s}
Down(n) == [i \in 1..n |-> 63 - i]

MCSmallPrimes == <<2, 3, 5, 7, 11, 13, 17, 19, 23, 29, 31, 37, 41, 43, 47, 53, 59, 61, 67, 71,
                   73, 79, 83, 89, 97>>
MCLargePrimes == <<
  1069, 1409, 1471, 1567, 1597, 1601, 1697, 1747, 1801, 1889, 1979, 1999, 2063, 2207, 2371, 2503,
  2539, 2693, 2741, 2753, 2801, 2819, 2837, 2909, 2939, 3169, 3389, 3571, 3761, 3881, 4217, 4289,
  4547, 4729, 4789, 4877, 4943, 4951, 4957, 5393, 5417, 5419, 5441, 5519, 5527, 5647, 5779, 5881,
  6007, 6089, 6133, 6389, 6451, 6469, 6547, 6661, 6719, 6841, 7103, 7549, 7559, 7573, 7691, 7753,
  7867, 8053, 8081, 8221, 8329, 8599, 8677, 8761, 8839, 8963, 9103, 9199, 9343, 9467, 9551, 9601,
  9739, 9749, 9859>>
MCModuli == <<32, 31, 29, 27, 25, 23>>

B == BOOLEAN
MCJobs == <<
  Job("ZeroLogon", Numbers({1}), {0}, {TRUE}, {0}, {0}),
  Job("FreshInstall", Numbers({1, 4}), {0}, {TRUE}, {0}, {0}),
  Job("Laika", Numbers({2, 4}), {0}, {TRUE}, {0}, {0}),
  Job("EuroZone", Numbers({27}), {0}, {TRUE}, {0}, {0}),
  Job("TopPass", Numbers({93}), {0}, {TRUE}, {0}, {0}),
  Job("DeskMemo", Numbers({0, 7}), {0}, {TRUE}, {0}, {3}),
  Job("CloudBlare", {<<0, 4, 0>>, <<9>>}, {0}, {TRUE}, {0}, {0}),
  Job("Binary", {<<48, 57>>, <<65, 122, 90>>}, {0}, {TRUE}, {0}, {0}),
  Job("OrdoXenos", {<<48, 57>>, <<65, 122, 90>>}, {0}, {TRUE}, {0}, {37, 255}),
  Job("OctantVoxel", Numbers({0, 1, 35, 36, 4711}), {0}, {TRUE}, {0}, {2, 3, 16, 36}),
  Job("PrimeTime", Numbers({1069, 9859}), {0}, {TRUE}, {0}, {1, 2, 12, 97 * 97, 2 * 3 * 89}),
  Job("ProverFlo", {<<1, 2>>, <<5, 5, 5>>}, {0}, {TRUE}, {0}, {0}),
  Job("BellaCuore", Numbers({0, 4, 9, 1994, 3888}), {0}, B, {7}, {0}),
  Job("BellaCuore", Numbers({0, 1, 5, 6, 9}), {1, 4}, B, {8}, {0, 3, 1000}),
  Job("AccountsManager", Numbers({0, 7, 9, 10, 99, 100, 118, 119, 139, 140}), {0}, B, {0}, {0}),
  Job("Nil", Words(3, 3), {3}, B, {0}, {0}),
  Job("Nil", {Fill(8, 62), Down(8)}, {62}, {TRUE}, {0}, {0}),
  Job("RateMyPix", Words(3, 4), {4}, B, {0}, {0}),
  Job("DeepGreen", Words(2, 3), {3}, B, {0}, {0}),
  Job("RateMyPix", {Down(8), Fill(8, 62)}, {62}, {TRUE}, {0}, {0}),
  Job("RateMyPix", Words(2, 10) \union {<<10, 1, 9, 2, 8, 3, 7, 4, 6>>}, {10}, {TRUE}, {0}, {0}),
  Job("DeepGreen", {Down(16)}, {62}, {TRUE}, {0}, {0}),
  Lossy(2, "Cellular", Words(3, 3), {3}, B, {0}, {24}),
  Lossy(2, "Cellular", Words(2, 4), {4}, B, {0}, {24}),
  Lossy(0, "Cellular", {Fill(8, 62), Down(8)}, {62}, B, {0}, {0}),
  Job("Factori", Numbers({1, 2, 36, 97, 1024}), {0}, {TRUE}, {12}, {0}),
  Job("Factori", Numbers({9859, 131072 * 1069, 1069 * 97 * 97}), {0}, B, {13}, {0}),
  Job("Factori", Numbers({9859 * 9859, 1069 * 9859 * 128, 1069 * 1069 * 5}), {0}, {TRUE}, {25}, {0}),
  Job("BigMood", Numbers({0, 1, 31, 32, 99999, 123456789, 446622999}), {0}, B, {0}, {0}),
  Job("Php", {<<7>>, <<1, 0, 0>>, <<9, 8, 7, 6>>, <<2, 0, 2, 0>>}, {0}, B, {0}, {0}),
  Job("Php", {<<1, 0, 0, 0, 0>>, <<9, 9, 9, 9, 9, 9>>, <<5, 1, 4, 9, 0>>, <<9, 0, 3, 7, 2, 8>>}, {0}, B, {0}, {0}),
  Job("AccessPoint", {<<3, 4>>}, {0}, B, {16}, {0}),
  Job("AccessPoint", {<<3, 4>>, <<3, 3, 4>>}, {0}, B, {17}, {0}) >>

=============================================================================
