------------------------------ MODULE Examples ------------------------------
(***************************************************************************)
(* Programs of the repository's examples directory: the texts of their     *)
(* declarations, without indentation and empty lines.                      *)
(***************************************************************************)
EXTENDS Sequences

(* examples/tac.nod *)
StoreText ==
  "/* tac\n* Not the UNIX tac, but rather reverses individual lines.\n*/\n"
  \o "processor store {\n$chr <- %in;\nif ($chr != '\\n') {\n%st <- $chr;\n++$size;\n"
  \o "} else {\n%send <- $size;\n$size = 0;\n}\n}\n"

ReportText ==
  "processor report {\n$size <- %size;\nwhile ($size) {\n%out <- %in;\n--$size;\n"
  \o "}\n%out <- '\\n';\n}\n"

(* examples/adder.nod *)
ReaderText ==
  "/* add.nod\n* For each line of space-separated integers, add them\n"
  \o "* together and print the result.\n*/\n"
  \o "// Read from user input and convert them into numbers\nprocessor reader {\n"
  \o "$chr <- %in;\nif ($chr >= '0' && $chr <= '9') {\n"
  \o "// Append the digit $chr to the accumulator\n$acc = $acc * 10 + ($chr - '0');\n"
  \o "$thereisnum = 1;\n} else if ($chr == ' ') {\nif ($thereisnum) {\n"
  \o "%out <- 0; // op 0 = Next Number\n%out <- $acc;\n$acc = 0;\n$thereisnum = 0;\n"
  \o "}\n} else if ($chr == '\\n') {\nif ($thereisnum) {\n"
  \o "%out <- 0; // op 0 = Next Number\n%out <- $acc;\n$acc = 0;\n$thereisnum = 0;\n"
  \o "}\n%out <- 1; // op 1 = Sum them up\n"
  \o "$unused <- %cont; // Wait until the printer is done to\n// continue reading.\n"
  \o "} else {\n%err <- 0; // op 2 = User input error\nhalt;\n}\n}\n"

AdderText ==
  "// Accumulate all numbers and send them off\nprocessor adder {\n"
  \o "$status <- %in;\nif ($status == 0) {\n// op 0 = Next Number\n$num <- %in;\n"
  \o "$total += $num;\n} else if ($status == 1) {\n// op 1 = Send the result\n"
  \o "%out <- $total;\n$total = 0;\n}\n}\n"

ErrorText ==
  "// Relay message to output on trigger.\nprocessor error {\n"
  \o "$unused <- %trigger; // Wait for trigger\nwhile (1) {\n%idx <- $i++;\n"
  \o "$chr <- %in;\nif ($chr == 0)\nhalt;\n%out <- $chr;\n}\n}\n"

MessageText ==
  "buffer errormsg = \"User input error\\n\";\n"

PrinterText ==
  "processor printer {\n$num <- %in;\n$started = 0;\n"
  \o "%out <- ' '; // small indent to separate from numbers in\n// console output.\n"
  \o "// Numbers range from 0 to 255, making our job a little easier\n"
  \o "// Print hundreds digit\nif ($num >= 100) {\n$chr = ($num / 100) + '0';\n"
  \o "%out <- $chr;\n$num %= 100;\n$started = 1;\n}\n// Print tens digit\n"
  \o "if ($started || $num >= 10) {\n$chr = ($num / 10) + '0';\n%out <- $chr;\n"
  \o "$num %= 10;\n}\n// Print ones digit and newline\n$chr = $num + '0';\n"
  \o "%out <- $chr;\n%out <- '\\n';\n%cont <- 0; // Tell the reader to continue.\n}\n"

=============================================================================
