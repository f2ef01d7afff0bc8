------------------------------- MODULE Codec -------------------------------
(***************************************************************************)
(* How values travel between a remote machine and its server: base64       *)
(* (base64.cpp), the conversions to and from JSON (json-util.cpp), and the *)
(* arguments and answers of a request.                                     *)
(*                                                                         *)
(* A structure is a function from the names of its fields; To_T gives the  *)
(* fields to_json writes for a T, From_T those ju_get_opt_field reads and  *)
(* whether it insists on them, with their types.  A type is the name of a  *)
(* structure, an enumeration or a scalar, or a sequence of one ("many").   *)
(* A JSON value is a record of its kind and its value.                     *)
(***************************************************************************)
EXTENDS Integers, Sequences, SequencesExt, FiniteSets, FiniteSetsExt, TLC

-----------------------------------------------------------------------------
\* Base64.  A character is the number it stands for; 64 is the padding, 65 a
\* blank and 66 a character that has no meaning.
Pad == 64
Blank == 65
Invalid == 66

\* Digits of n in base 64, k of them.
Digits(n, k) == [i \in 1..k |-> (n \div 64^(k - i)) % 64]
b64encode(group) == Digits(group[1] * 65536 + group[2] * 256 + group[3], 4)
b64pad(group) ==
  CASE Len(group) = 1 -> Digits(group[1] * 16, 2) \o <<Pad, Pad>>
    [] Len(group) = 2 -> Digits((group[1] * 256 + group[2]) * 4, 3) \o <<Pad>>
    [] OTHER -> <<>>
RECURSIVE encode_base64(_)
encode_base64(data) ==
  IF Len(data) < 3 THEN b64pad(data) ELSE b64encode(SubSeq(data, 1, 3)) \o encode_base64(SubSeq(data, 4, Len(data)))

\* Padding is zero in a group; what it makes up is dropped.
b64decode(group) ==
  LET v(i) == IF group[i] = Pad THEN 0 ELSE group[i]
      n == ((v(1) * 64 + v(2)) * 64 + v(3)) * 64 + v(4)
      valid == IF group[3] = Pad THEN 1 ELSE IF group[4] = Pad THEN 2 ELSE 3
  IN  SubSeq(<<n \div 65536, (n \div 256) % 256, n % 256>>, 1, valid)
RECURSIVE DecodeGroups(_)
DecodeGroups(chars) ==
  IF Len(chars) < 4 THEN <<>> ELSE b64decode(SubSeq(chars, 1, 4)) \o DecodeGroups(SubSeq(chars, 5, Len(chars)))
\* The set of the data, empty when an exception is thrown.
decode_base64(chars) ==
  IF \E i \in DOMAIN chars : chars[i] = Invalid THEN {}
  ELSE {DecodeGroups(SelectSeq(chars, LAMBDA c : c # Blank))}

\* RFC 4648: the bits of the data in groups of six, padded to whole groups; and
\* decoding gives the data back, whatever blanks there are, or refuses.
Base64Correct(data) ==
  LET code == encode_base64(data)
      bit(i) == IF i > 8 * Len(data) THEN 0 ELSE (data[((i - 1) \div 8) + 1] \div 2^(7 - ((i - 1) % 8))) % 2
      chars == (8 * Len(data) + 5) \div 6
      with(c, k) == SubSeq(code, 1, k) \o <<c>> \o SubSeq(code, k + 1, Len(code))
  IN  /\ Len(code) % 4 = 0 /\ Len(code) - chars \in 0..2
      /\ \A k \in 1..Len(code) :
           code[k] = IF k > chars THEN Pad
                     ELSE 32 * bit(6 * k - 5) + 16 * bit(6 * k - 4) + 8 * bit(6 * k - 3) + 4 * bit(6 * k - 2)
                            + 2 * bit(6 * k - 1) + bit(6 * k)
      /\ decode_base64(code) = {data}
      /\ \A k \in 0..Len(code) : decode_base64(with(Blank, k)) = {data} /\ decode_base64(with(Invalid, k)) = {}

-----------------------------------------------------------------------------
\* Names of enumerators, written and read; registers of a file have a number.
Numbered(prefix, n) == {prefix \o ToString(i) : i \in 0..(n - 1)}
interpreter_break_reason_to_name ==
  {"failed", "halted", "yielded_manually", "yielded_automatically", "yielded_softly", "reached_target_mcycle",
  "console_output", "console_input"}
interpreter_break_reason_from_name ==
  {"failed", "halted", "yielded_manually", "yielded_automatically", "yielded_softly", "reached_target_mcycle",
  "console_output", "console_input"}
uarch_interpreter_break_reason_to_name == {"uarch_halted", "reached_target_cycle", "cycle_overflow"}
uarch_interpreter_break_reason_from_name == {"reached_target_cycle", "uarch_halted", "cycle_overflow"}
sharing_mode_to_name == {"none", "config", "all"}
sharing_mode_from_name == {"none", "config", "all"}
hash_function_to_name == {"keccak256", "sha256"}
hash_function_from_name == {"sha256", "keccak256"}
bracket_type_to_name == {"begin", "end"}
bracket_type_from_name == {"begin", "end"}
console_output_destination_to_name == {"to_null", "to_stdout", "to_stderr", "to_fd", "to_file", "to_buffer"}
console_output_destination_from_name == {"to_null", "to_stdout", "to_stderr", "to_fd", "to_file", "to_buffer"}
console_flush_mode_to_name == {"when_full", "every_char", "every_line"}
console_flush_mode_from_name == {"when_full", "every_char", "every_line"}
console_input_source_to_name == {"from_null", "from_stdin", "from_fd", "from_file", "from_buffer"}
console_input_source_from_name == {"from_null", "from_stdin", "from_fd", "from_file", "from_buffer"}
access_type_to_name == {"read", "write"}
access_type_from_name == {"read", "write"}
reg_to_name ==
  Numbered("x", 32) \union Numbered("f", 32) \union Numbered("uarch_x", 32) \union {
    "pc", "fcsr", "mvendorid", "marchid", "mimpid", "mcycle", "icycleinstret", "mstatus", "mtvec", "mscratch",
    "mepc", "mcause", "mtval", "misa", "mie", "mip", "medeleg", "mideleg", "mcounteren", "menvcfg", "stvec",
    "sscratch", "sepc", "scause", "stval", "satp", "scounteren", "senvcfg", "ilrsc", "iprv", "iflags_X", "iflags_Y",
    "iflags_H", "iunrep", "clint_mtimecmp", "plic_girqpend", "plic_girqsrvd", "htif_tohost", "htif_tohost_dev",
    "htif_tohost_cmd", "htif_tohost_reason", "htif_tohost_data", "htif_fromhost", "htif_fromhost_dev",
    "htif_fromhost_cmd", "htif_fromhost_reason", "htif_fromhost_data", "htif_ihalt", "htif_iconsole", "htif_iyield",
    "uarch_pc", "uarch_cycle", "uarch_halt_flag"}
reg_from_name ==
  Numbered("x", 32) \union Numbered("f", 32) \union Numbered("uarch_x", 32) \union {
    "pc", "fcsr", "mvendorid", "marchid", "mimpid", "mcycle", "icycleinstret", "mstatus", "mtvec", "mscratch",
    "mepc", "mcause", "mtval", "misa", "mie", "mip", "medeleg", "mideleg", "mcounteren", "menvcfg", "stvec",
    "sscratch", "sepc", "scause", "stval", "satp", "scounteren", "senvcfg", "ilrsc", "iprv", "iflags_X", "iflags_Y",
    "iflags_H", "iunrep", "clint_mtimecmp", "plic_girqpend", "plic_girqsrvd", "htif_tohost", "htif_tohost_dev",
    "htif_tohost_cmd", "htif_tohost_reason", "htif_tohost_data", "htif_fromhost", "htif_fromhost_dev",
    "htif_fromhost_cmd", "htif_fromhost_reason", "htif_fromhost_data", "htif_ihalt", "htif_iconsole", "htif_iyield",
    "uarch_pc", "uarch_cycle", "uarch_halt_flag"}
Enums ==
  [
   interpreter_break_reason |-> <<interpreter_break_reason_to_name, interpreter_break_reason_from_name>>,
   uarch_interpreter_break_reason |-> <<uarch_interpreter_break_reason_to_name, uarch_interpreter_break_reason_from_name>>,
   sharing_mode |-> <<sharing_mode_to_name, sharing_mode_from_name>>,
   hash_function_type |-> <<hash_function_to_name, hash_function_from_name>>,
   bracket_type |-> <<bracket_type_to_name, bracket_type_from_name>>,
   console_output_destination |-> <<console_output_destination_to_name, console_output_destination_from_name>>,
   console_flush_mode |-> <<console_flush_mode_to_name, console_flush_mode_from_name>>,
   console_input_source |-> <<console_input_source_to_name, console_input_source_from_name>>,
   access_type |-> <<access_type_to_name, access_type_from_name>>, machine_reg |-> <<reg_to_name, reg_from_name>>]

-----------------------------------------------------------------------------
\* Structures.
Each(fields, type) == [f \in fields |-> type]
Required(t) == [f \in DOMAIN t |-> <<"required", t[f]>>]
Optional(t) == [f \in DOMAIN t |-> <<"optional", t[f]>>]

To_semantic_version == Each({"major", "minor", "patch"}, "uint32") @@ Each({"pre_release", "build"}, "string")
To_console_runtime_config ==
  Each({"output_destination"}, "console_output_destination") @@ Each({"output_flush_mode"}, "console_flush_mode") @@
  Each({"output_buffer_size", "input_buffer_size"}, "uint64") @@ Each({"output_fd", "input_fd"}, "int32") @@
  Each({"output_filename", "input_filename"}, "string") @@ Each({"input_source"}, "console_input_source") @@
  Each({"tty_cols", "tty_rows"}, "uint16")
To_concurrency_runtime_config == Each({"update_hash_tree"}, "uint64")
To_machine_runtime_config ==
  Each({"console"}, "console_runtime_config") @@ Each({"concurrency"}, "concurrency_runtime_config") @@
  Each({"skip_version_check", "soft_yield", "no_reserve"}, "bool")
To_hash_tree_proof ==
  Each({"target_address", "log2_target_size", "log2_root_size"}, "uint64") @@
  Each({"target_hash", "root_hash"}, "hash") @@ Each({"sibling_hashes"}, "many_hash")
To_page_hash_tree_cache_stats ==
  Each({"page_hits", "page_misses", "word_hits", "word_misses", "page_changes", "inner_page_hashes",
  "pristine_pages", "non_pristine_pages"}, "uint64")
To_hash_tree_stats ==
  Each({"sparse_node_hashes"}, "uint64") @@ Each({"dense_node_hashes"}, "many_uint64") @@
  Each({"phtc"}, "page_hash_tree_cache_stats")
To_access ==
  Each({"type"}, "access_type") @@ Each({"address", "log2_size"}, "uint64") @@
  Each({"read_hash", "written_hash"}, "hash") @@ Each({"read", "written"}, "data") @@
  Each({"sibling_hashes"}, "many_hash")
To_bracket_note == Each({"type"}, "bracket_type") @@ Each({"where"}, "uint64") @@ Each({"text"}, "string")
To_access_log_type == Each({"has_annotations", "has_large_data"}, "bool")
To_access_log ==
  Each({"log_type"}, "access_log_type") @@ Each({"accesses"}, "many_access") @@ Each({"notes"}, "many_string") @@
  Each({"brackets"}, "many_bracket_note")
To_registers_state ==
  Each(Numbered("f", 32) \union Numbered("x", 32) \union {"pc", "fcsr", "mvendorid", "marchid", "mimpid", "mcycle",
  "icycleinstret", "mstatus", "mtvec", "mscratch", "mepc", "mcause", "mtval", "misa", "mie", "mip", "medeleg",
  "mideleg", "mcounteren", "menvcfg", "stvec", "sscratch", "sepc", "scause", "stval", "satp", "scounteren",
  "senvcfg", "ilrsc", "iprv", "iunrep"}, "uint64") @@ Each({"iflags"}, "iflags_state") @@
  Each({"clint"}, "clint_state") @@ Each({"plic"}, "plic_state") @@ Each({"htif"}, "htif_state")
To_processor_config == Each({"registers"}, "registers_state") @@ Each({"backing_store"}, "backing_store_config")
To_dtb_config == Each({"bootargs", "init", "entrypoint"}, "string") @@ Each({"backing_store"}, "backing_store_config")
To_ram_config == Each({"length"}, "uint64") @@ Each({"backing_store"}, "backing_store_config")
To_memory_range_config ==
  Each({"label"}, "string") @@ Each({"start", "length"}, "uint64") @@ Each({"read_only"}, "bool") @@
  Each({"backing_store"}, "backing_store_config")
To_hash_tree_config ==
  Each({"shared", "create"}, "bool") @@ Each({"sht_filename", "phtc_filename"}, "string") @@
  Each({"phtc_size"}, "uint64") @@ Each({"hash_function"}, "hash_function_type")
To_backing_store_config ==
  Each({"shared", "create", "truncate"}, "bool") @@
  Each({"data_filename", "dht_filename", "dpt_filename"}, "string")
To_backing_store_config_only == Each({"backing_store"}, "backing_store_config")
\* A device is one alternative of a variant: it is written with a tag, its
\* "type", and read as the alternative that the tag says.
BadTo_virtio_device_config ==
  [virtio_console_config |-> <<"console", Each({}, "string")>>,
   virtio_block_config |-> <<"block", Each({"capacity"}, "uint64")>>,
   virtio_p9fs_config |-> <<"p9fs", Each({"tag", "host_directory"}, "string")>>,
   virtio_net_user_config |-> <<"net-user", Each({"hostfwd"}, "many_hostfwd")>>,
   virtio_net_tuntap_config |-> <<"net-tuntap", Each({"iface"}, "string")>>,
   virtio_net_host_config |-> <<"net-user", Each({}, "string")>>]
To_virtio_device_config ==
  [virtio_console_config |-> <<"console", Each({}, "string")>>,
   virtio_block_config |-> <<"block", Each({"capacity"}, "uint64")>>,
   virtio_p9fs_config |-> <<"p9fs", Each({"tag", "host_directory"}, "string")>>,
   virtio_net_user_config |-> <<"net-user", Each({"hostfwd"}, "many_hostfwd")>>,
   virtio_net_tuntap_config |-> <<"net-tuntap", Each({"iface"}, "string")>>,
   virtio_net_host_config |-> <<"net-host", Each({}, "string")>>]
To_iflags_state == Each({"X", "Y", "H"}, "uint64")
To_clint_state == Each({"mtimecmp"}, "uint64")
To_plic_state == Each({"girqpend", "girqsrvd"}, "uint64")
To_htif_state == Each({"fromhost", "tohost", "ihalt", "iconsole", "iyield"}, "uint64")
To_cmio_config == Each({"rx_buffer", "tx_buffer"}, "backing_store_config_only")
To_uarch_registers_state == Each(Numbered("x", 32) \union {"pc", "cycle", "halt_flag"}, "uint64")
To_uarch_processor_config ==
  Each({"registers"}, "uarch_registers_state") @@ Each({"backing_store"}, "backing_store_config")
To_uarch_config == Each({"processor"}, "uarch_processor_config") @@ Each({"ram"}, "backing_store_config_only")
To_machine_config ==
  Each({"processor"}, "processor_config") @@ Each({"ram"}, "ram_config") @@ Each({"dtb"}, "dtb_config") @@
  Each({"flash_drive", "nvram"}, "many_memory_range_config") @@ Each({"virtio"}, "many_virtio_device_config") @@
  Each({"cmio"}, "cmio_config") @@ Each({"pmas"}, "backing_store_config_only") @@ Each({"uarch"}, "uarch_config") @@
  Each({"hash_tree"}, "hash_tree_config")
To_address_range_description ==
  Each({"length", "start", "driver_id"}, "uint64") @@ Each({"description"}, "string") @@ Each({"is_memory",
  "is_device", "is_readable", "is_writeable", "is_executable", "is_read_idempotent", "is_write_idempotent"}, "bool")
To_fork_result == Each({"address"}, "string") @@ Each({"pid"}, "uint32")
To_mcycle_root_hashes ==
  Each({"hashes"}, "many_hash") @@ Each({"mcycle_phase"}, "uint64") @@
  Each({"break_reason"}, "interpreter_break_reason") @@ Each({"back_tree"}, "back_merkle_tree") @@
  Each({"console_io_error"}, "string")
To_uarch_cycle_root_hashes ==
  Each({"hashes"}, "many_hash") @@ Each({"reset_indices"}, "many_uint64") @@
  Each({"break_reason"}, "uarch_interpreter_break_reason")
To_back_merkle_tree ==
  Each({"log2_max_leaves", "leaf_count"}, "uint64") @@ Each({"hash_function"}, "hash_function_type") @@
  Each({"context"}, "many_hash")
To_hostfwd == Each({"is_udp"}, "bool") @@ Each({"host_ip", "guest_ip"}, "uint32") @@ Each({"host_port", "guest_port"}, "uint16")

From_semantic_version ==
  Required(Each({"major", "minor", "patch"}, "uint32")) @@ Required(Each({"pre_release", "build"}, "string"))
From_console_runtime_config ==
  Optional(Each({"output_destination"}, "console_output_destination")) @@
  Optional(Each({"output_flush_mode"}, "console_flush_mode")) @@
  Optional(Each({"output_buffer_size", "input_buffer_size"}, "uint64")) @@
  Optional(Each({"output_fd", "input_fd"}, "int32")) @@
  Optional(Each({"output_filename", "input_filename"}, "string")) @@
  Optional(Each({"input_source"}, "console_input_source")) @@ Optional(Each({"tty_cols", "tty_rows"}, "uint16"))
From_concurrency_runtime_config == Optional(Each({"update_hash_tree"}, "uint64"))
From_machine_runtime_config ==
  Optional(Each({"console"}, "console_runtime_config")) @@
  Optional(Each({"concurrency"}, "concurrency_runtime_config")) @@
  Optional(Each({"skip_version_check", "soft_yield", "no_reserve"}, "bool"))
From_hash_tree_proof ==
  Required(Each({"log2_root_size", "log2_target_size", "target_address"}, "uint64")) @@
  Required(Each({"target_hash", "root_hash"}, "hash")) @@ Required(Each({"sibling_hashes"}, "many_hash"))
From_page_hash_tree_cache_stats ==
  Optional(Each({"page_hits", "page_misses", "word_hits", "word_misses", "page_changes", "inner_page_hashes",
  "pristine_pages", "non_pristine_pages"}, "uint64"))
From_hash_tree_stats ==
  Required(Each({"dense_node_hashes"}, "many_uint64")) @@ Optional(Each({"phtc"}, "page_hash_tree_cache_stats")) @@
  Optional(Each({"sparse_node_hashes"}, "uint64"))
From_access ==
  Required(Each({"type"}, "access_type")) @@ Required(Each({"log2_size", "address"}, "uint64")) @@
  Required(Each({"read_hash"}, "hash")) @@ Optional(Each({"written_hash"}, "hash")) @@
  Optional(Each({"read", "written"}, "data")) @@ Optional(Each({"sibling_hashes"}, "many_hash"))
From_bracket_note ==
  Required(Each({"type"}, "bracket_type")) @@ Required(Each({"where"}, "uint64")) @@
  Optional(Each({"text"}, "string"))
From_access_log_type == Required(Each({"has_annotations", "has_large_data"}, "bool"))
\* The brackets of a log not read back.
BadFrom_access_log ==
  Required(Each({"log_type"}, "access_log_type")) @@ Required(Each({"accesses"}, "many_access")) @@
  Optional(Each({"notes"}, "many_string"))
From_access_log ==
  Required(Each({"log_type"}, "access_log_type")) @@ Required(Each({"accesses"}, "many_access")) @@
  Optional(Each({"notes"}, "many_string")) @@ Optional(Each({"brackets"}, "many_bracket_note"))
From_registers_state ==
  Optional(Each(Numbered("f", 32) \union Numbered("x", 32) \union {"pc", "fcsr", "mvendorid", "marchid", "mimpid",
  "mcycle", "icycleinstret", "mstatus", "mtvec", "mscratch", "mepc", "mcause", "mtval", "misa", "mie", "mip",
  "medeleg", "mideleg", "mcounteren", "menvcfg", "stvec", "sscratch", "sepc", "scause", "stval", "satp",
  "scounteren", "senvcfg", "ilrsc", "iprv", "iunrep"}, "uint64")) @@ Optional(Each({"iflags"}, "iflags_state")) @@
  Optional(Each({"clint"}, "clint_state")) @@ Optional(Each({"plic"}, "plic_state")) @@
  Optional(Each({"htif"}, "htif_state"))
From_processor_config ==
  Optional(Each({"registers"}, "registers_state")) @@ Optional(Each({"backing_store"}, "backing_store_config"))
From_dtb_config ==
  Optional(Each({"bootargs", "init", "entrypoint"}, "string")) @@
  Optional(Each({"backing_store"}, "backing_store_config"))
From_ram_config == Required(Each({"length"}, "uint64")) @@ Optional(Each({"backing_store"}, "backing_store_config"))
From_memory_range_config ==
  Optional(Each({"label"}, "string")) @@ Optional(Each({"start", "length"}, "uint64")) @@
  Optional(Each({"read_only"}, "bool")) @@ Optional(Each({"backing_store"}, "backing_store_config"))
From_hash_tree_config ==
  Optional(Each({"shared", "create"}, "bool")) @@ Optional(Each({"sht_filename", "phtc_filename"}, "string")) @@
  Optional(Each({"phtc_size"}, "uint64")) @@ Optional(Each({"hash_function"}, "hash_function_type"))
From_backing_store_config ==
  Optional(Each({"shared", "create", "truncate"}, "bool")) @@
  Optional(Each({"data_filename", "dht_filename", "dpt_filename"}, "string"))
From_backing_store_config_only == Optional(Each({"backing_store"}, "backing_store_config"))
From_virtio_device_config ==
  "console" :> <<"virtio_console_config", Optional(Each({}, "string"))>> @@
  "block" :> <<"virtio_block_config", Optional(Each({"capacity"}, "uint64"))>> @@
  "p9fs" :> <<"virtio_p9fs_config", Optional(Each({"tag", "host_directory"}, "string"))>> @@
  "net-user" :> <<"virtio_net_user_config", Optional(Each({"hostfwd"}, "many_hostfwd"))>> @@
  "net-host" :> <<"virtio_net_host_config", Optional(Each({}, "string"))>> @@
  "net-tuntap" :> <<"virtio_net_tuntap_config", Optional(Each({"iface"}, "string"))>>
From_iflags_state == Optional(Each({"X", "Y", "H"}, "uint64"))
From_clint_state == Optional(Each({"mtimecmp"}, "uint64"))
From_plic_state == Optional(Each({"girqpend", "girqsrvd"}, "uint64"))
From_htif_state == Optional(Each({"fromhost", "tohost", "ihalt", "iconsole", "iyield"}, "uint64"))
From_cmio_config == Required(Each({"rx_buffer", "tx_buffer"}, "backing_store_config_only"))
From_uarch_registers_state == Optional(Each(Numbered("x", 32) \union {"pc", "cycle", "halt_flag"}, "uint64"))
From_uarch_processor_config ==
  Optional(Each({"registers"}, "uarch_registers_state")) @@
  Optional(Each({"backing_store"}, "backing_store_config"))
From_uarch_config ==
  Optional(Each({"processor"}, "uarch_processor_config")) @@ Optional(Each({"ram"}, "backing_store_config_only"))
From_machine_config ==
  Optional(Each({"processor"}, "processor_config")) @@ Optional(Each({"ram"}, "ram_config")) @@
  Optional(Each({"dtb"}, "dtb_config")) @@ Optional(Each({"flash_drive", "nvram"}, "many_memory_range_config")) @@
  Optional(Each({"virtio"}, "many_virtio_device_config")) @@ Optional(Each({"cmio"}, "cmio_config")) @@
  Optional(Each({"pmas"}, "backing_store_config_only")) @@ Optional(Each({"uarch"}, "uarch_config")) @@
  Optional(Each({"hash_tree"}, "hash_tree_config"))
From_address_range_description ==
  Optional(Each({"length", "start", "driver_id"}, "uint64")) @@ Optional(Each({"description"}, "string")) @@
  Optional(Each({"is_memory", "is_device", "is_readable", "is_writeable", "is_executable", "is_read_idempotent",
  "is_write_idempotent"}, "bool"))
From_fork_result == Optional(Each({"address"}, "string")) @@ Optional(Each({"pid"}, "uint32"))
From_mcycle_root_hashes ==
  Required(Each({"hashes"}, "many_hash")) @@ Required(Each({"mcycle_phase"}, "uint64")) @@
  Required(Each({"break_reason"}, "interpreter_break_reason")) @@ Optional(Each({"back_tree"}, "back_merkle_tree"))
  @@ Optional(Each({"console_io_error"}, "string"))
From_uarch_cycle_root_hashes ==
  Required(Each({"hashes"}, "many_hash")) @@ Required(Each({"reset_indices"}, "many_uint64")) @@
  Required(Each({"break_reason"}, "uarch_interpreter_break_reason"))
From_back_merkle_tree ==
  Required(Each({"log2_max_leaves", "leaf_count"}, "uint64")) @@
  Required(Each({"hash_function"}, "hash_function_type")) @@ Required(Each({"context"}, "many_hash"))
From_hostfwd == Optional(Each({"is_udp"}, "bool") @@ Each({"host_ip", "guest_ip"}, "uint32") @@ Each({"host_port", "guest_port"}, "uint16"))

To ==
  [
   semantic_version |-> To_semantic_version, console_runtime_config |-> To_console_runtime_config,
   concurrency_runtime_config |-> To_concurrency_runtime_config,
   machine_runtime_config |-> To_machine_runtime_config, hash_tree_proof |-> To_hash_tree_proof,
   page_hash_tree_cache_stats |-> To_page_hash_tree_cache_stats, hash_tree_stats |-> To_hash_tree_stats,
   access |-> To_access, bracket_note |-> To_bracket_note, access_log_type |-> To_access_log_type,
   access_log |-> To_access_log, registers_state |-> To_registers_state, processor_config |-> To_processor_config,
   dtb_config |-> To_dtb_config, ram_config |-> To_ram_config, memory_range_config |-> To_memory_range_config,
   hash_tree_config |-> To_hash_tree_config, backing_store_config |-> To_backing_store_config,
   backing_store_config_only |-> To_backing_store_config_only,
   iflags_state |-> To_iflags_state, clint_state |-> To_clint_state, plic_state |-> To_plic_state,
   htif_state |-> To_htif_state, cmio_config |-> To_cmio_config,
   uarch_registers_state |-> To_uarch_registers_state, uarch_processor_config |-> To_uarch_processor_config,
   uarch_config |-> To_uarch_config, machine_config |-> To_machine_config,
   address_range_description |-> To_address_range_description, fork_result |-> To_fork_result,
   mcycle_root_hashes |-> To_mcycle_root_hashes, uarch_cycle_root_hashes |-> To_uarch_cycle_root_hashes,
   back_merkle_tree |-> To_back_merkle_tree, hostfwd |-> To_hostfwd]
From ==
  [
   semantic_version |-> From_semantic_version, console_runtime_config |-> From_console_runtime_config,
   concurrency_runtime_config |-> From_concurrency_runtime_config,
   machine_runtime_config |-> From_machine_runtime_config, hash_tree_proof |-> From_hash_tree_proof,
   page_hash_tree_cache_stats |-> From_page_hash_tree_cache_stats, hash_tree_stats |-> From_hash_tree_stats,
   access |-> From_access, bracket_note |-> From_bracket_note, access_log_type |-> From_access_log_type,
   access_log |-> From_access_log, registers_state |-> From_registers_state,
   processor_config |-> From_processor_config, dtb_config |-> From_dtb_config, ram_config |-> From_ram_config,
   memory_range_config |-> From_memory_range_config, hash_tree_config |-> From_hash_tree_config,
   backing_store_config |-> From_backing_store_config,
   backing_store_config_only |-> From_backing_store_config_only,
   iflags_state |-> From_iflags_state,
   clint_state |-> From_clint_state, plic_state |-> From_plic_state, htif_state |-> From_htif_state,
   cmio_config |-> From_cmio_config, uarch_registers_state |-> From_uarch_registers_state,
   uarch_processor_config |-> From_uarch_processor_config, uarch_config |-> From_uarch_config,
   machine_config |-> From_machine_config, address_range_description |-> From_address_range_description,
   fork_result |-> From_fork_result, mcycle_root_hashes |-> From_mcycle_root_hashes,
   uarch_cycle_root_hashes |-> From_uarch_cycle_root_hashes, back_merkle_tree |-> From_back_merkle_tree,
   hostfwd |-> From_hostfwd]

-----------------------------------------------------------------------------
\* Fields that to_json leaves out when there is nothing to write.
Sometimes ==
  [access |-> {"read", "written", "written_hash", "sibling_hashes"}, access_log |-> {"notes", "brackets"},
   mcycle_root_hashes |-> {"back_tree", "console_io_error"}]
MayLack(T) == IF T \in DOMAIN Sometimes THEN Sometimes[T] ELSE {}

\* Types of sequences, and of what is in them.
Many ==
  [many_hash |-> "hash", many_uint64 |-> "uint64", many_string |-> "string", many_access |-> "access",
   many_bracket_note |-> "bracket_note", many_memory_range_config |-> "memory_range_config",
   many_virtio_device_config |-> "virtio_device_config", many_hostfwd |-> "hostfwd"]

\* Numbers of each type, at the ends of their range (of widths of 8, 4, 2).
HashSize == 4
Numbers == [uint64 |-> 0..255, uint32 |-> 0..15, uint16 |-> 0..3, int32 |-> -8..7]

RECURSIVE ToJson(_, _)
ToJson(T, v) ==
  CASE T \in DOMAIN To ->
         [kind |-> "object", value |-> [f \in DOMAIN To[T] \intersect DOMAIN v |-> ToJson(To[T][f], v[f])]]
    [] T = "virtio_device_config" ->
         LET written == To_virtio_device_config[v.alternative]
         IN  [kind |-> "object",
              value |-> "type" :> [kind |-> "string", value |-> written[1]] @@
                        [f \in DOMAIN written[2] |-> ToJson(written[2][f], v.fields[f])]]
    [] T \in DOMAIN Many -> [kind |-> "array", value |-> [i \in DOMAIN v |-> ToJson(Many[T], v[i])]]
    [] T \in DOMAIN Enums -> [kind |-> "string", value |-> IF v \in Enums[T][1] THEN v ELSE "unknown"]
    [] T \in {"hash", "data"} -> [kind |-> "string", value |-> encode_base64(v)]
    [] T \in DOMAIN Numbers -> [kind |-> "number", value |-> v]
    [] T = "bool" -> [kind |-> "boolean", value |-> v]
    [] T = "string" -> [kind |-> "string", value |-> v]

\* What is read: the set of the value read, empty when an exception is thrown.
RECURSIVE FromJson(_, _)
ReadFields(fields, j) ==
  LET there == DOMAIN fields \intersect DOMAIN j.value
      read == [f \in there |-> FromJson(fields[f][2], j.value[f])]
  IN  IF \/ j.kind # "object"
         \/ \E f \in DOMAIN fields \ there : fields[f][1] = "required"
         \/ \E f \in there : read[f] = {}
      THEN {} ELSE {[f \in there |-> CHOOSE v \in read[f] : TRUE]}
FromJson(T, j) ==
  CASE T \in DOMAIN From -> ReadFields(From[T], j)
    [] T = "virtio_device_config" ->
         UNION {{[alternative |-> From_virtio_device_config[tag][1], fields |-> fields] :
                   fields \in ReadFields(From_virtio_device_config[tag][2], j)} :
                  tag \in {t \in DOMAIN From_virtio_device_config :
                             [type |-> t] \in ReadFields(Optional([type |-> "string"]), j)}}
    [] T \in DOMAIN Many ->
         LET read == [i \in DOMAIN j.value |-> FromJson(Many[T], j.value[i])]
         IN  IF j.kind # "array" \/ \E i \in DOMAIN read : read[i] = {} THEN {}
             ELSE {[i \in DOMAIN read |-> CHOOSE v \in read[i] : TRUE]}
    [] T \in DOMAIN Enums -> {v \in {j.value} : j.kind = "string" /\ v \in Enums[T][2]}
    [] T \in {"hash", "data"} ->
         IF j.kind = "string" THEN {v \in decode_base64(j.value) : T = "hash" => Len(v) = HashSize} ELSE {}
    [] T \in DOMAIN Numbers -> {v \in {j.value} : j.kind = "number" /\ v \in Numbers[T]}
    [] T = "bool" -> {v \in {j.value} : j.kind = "boolean"}
    [] T = "string" -> {v \in {j.value} : j.kind = "string"}

-----------------------------------------------------------------------------
Alternatives ==
  <<"virtio_p9fs_config", "virtio_net_host_config", "virtio_block_config", "virtio_console_config",
    "virtio_net_tuntap_config", "virtio_net_user_config">>

\* A value of a type, with all the fields of a structure but those lacking.
RECURSIVE Value(_, _)
Value(T, lacking) ==
  CASE T \in DOMAIN To -> [f \in DOMAIN To[T] \ lacking |-> Value(To[T][f], {})]
    [] T \in DOMAIN To_virtio_device_config ->
         [alternative |-> T, fields |-> [f \in DOMAIN To_virtio_device_config[T][2] |->
                                           Value(To_virtio_device_config[T][2][f], {})]]
    [] T = "many_virtio_device_config" -> [i \in 1..6 |-> Value(Alternatives[i], {})]
    [] T \in DOMAIN Many -> <<Value(Many[T], {}), Value(Many[T], MayLack(Many[T]))>>
    [] T \in DOMAIN Enums -> CHOOSE name \in Enums[T][1] : TRUE
    [] T = "hash" -> [i \in 1..HashSize |-> 255 - 50 * i]
    [] T = "data" -> <<1, 2, 255, 0, 5>>
    [] T \in DOMAIN Numbers -> CHOOSE n \in Numbers[T] : \A m \in Numbers[T] : n <= m
    [] T = "bool" -> TRUE
    [] T = "string" -> "text"

\* Whatever fields are there, of any type, what is read is what was written;
\* each name of an enumerator, each number and each alternative of a device, too.
\* A device without its tag, or with one that no alternative has, is not read.
RoundTrip(T) ==
  /\ T \in DOMAIN To => \A lacking \in SUBSET MayLack(T) :
       LET v == Value(T, lacking) IN FromJson(T, ToJson(T, v)) = {v}
  /\ T \in DOMAIN Enums => \A name \in Enums[T][1] : FromJson(T, ToJson(T, name)) = {name}
  /\ T \in DOMAIN Numbers => \A n \in Numbers[T] : FromJson(T, ToJson(T, n)) = {n}
  /\ T = "virtio_device_config" => \A alternative \in Range(Alternatives) :
       LET v == Value(alternative, {})
           j == ToJson(T, v)
           without == [j EXCEPT !.value = [f \in DOMAIN j.value \ {"type"} |-> j.value[f]]]
       IN  /\ FromJson(T, j) = {v} /\ FromJson(T, without) = {}
           /\ FromJson(T, [j EXCEPT !.value["type"].value = "net"]) = {}
           /\ FromJson(T, [j EXCEPT !.value["type"].kind = "number"]) = {}
Types == DOMAIN To \union DOMAIN Enums \union DOMAIN Numbers \union {"virtio_device_config"}

-----------------------------------------------------------------------------
(* What the server makes of the body of a request                          *)
(* (jsonrpc-remote-machine.cpp): which arguments a call has, and which     *)
(* answers a batch gets.  A parameter list is the sequence of "optional":  *)
(* BOOLEAN; params is <<"none">>, <<"object", keys>> with the keys given   *)
(* (0 is one the method does not know), <<"array", size>> or <<"other">>.  *)
(* Refused is an exception, which becomes an error answer.                 *)

Refused == <<"refused">>
Given(n) == <<"given", n>>

count_mandatory_params(opt) == Cardinality({i \in DOMAIN opt : ~ opt[i]})
first_optional_param(opt) == Min({i \in DOMAIN opt : opt[i]} \cup {Len(opt) + 1})
last_mandatory_param(opt) == Max({i \in DOMAIN opt : ~ opt[i]} \cup {0})
has_arg(opt, present, i) == opt[i] => i \in present
first_missing_optional_arg(opt, present) ==
    Min({i \in DOMAIN opt : ~ has_arg(opt, present, i)} \cup {Len(opt) + 1})
last_present_arg(opt, present) == Max({i \in DOMAIN opt : has_arg(opt, present, i)} \cup {0})

(* Variant: a gap among the optional arguments is not noticed.             *)
Badcount_args(opt, present) ==
    Given(Max({last_mandatory_param(opt), last_present_arg(opt, present)}))

(* How many arguments a call passes on to the machine.                     *)
count_args(opt, present) ==
    IF \/ first_optional_param(opt) <= last_mandatory_param(opt)
       \/ last_present_arg(opt, present) >= first_missing_optional_arg(opt, present)
    THEN Refused
    ELSE Given(Max({last_mandatory_param(opt), last_present_arg(opt, present)}))

(* The arguments that have a value: Refused, or <<"given", positions>>.    *)
parse_args(opt, params) ==
    LET mandatory == count_mandatory_params(opt)
    IN  CASE params[1] = "none" -> IF mandatory = 0 THEN Given({}) ELSE Refused
          [] params[1] = "other" -> Refused
          [] params[1] = "object" ->
                IF 1 .. mandatory \subseteq params[2] /\ params[2] \subseteq DOMAIN opt
                THEN Given(params[2]) ELSE Refused
          [] params[1] = "array" ->
                IF mandatory <= params[2] /\ params[2] <= Len(opt) THEN Given(1 .. params[2]) ELSE Refused

(* Reference: the server's methods have their optional parameters last,    *)
(* and a call of one is taken with n arguments when the arguments given    *)
(* are the first n, all mandatory ones among them.                         *)
ArgumentsCounted(opt, params) ==
    LET p == parse_args(opt, params)
        r == IF p = Refused THEN Refused ELSE count_args(opt, p[2])
        given == CASE params[1] = "object" -> params[2]
                   [] params[1] = "array" -> 1 .. params[2]
                   [] OTHER -> {}
        m == count_mandatory_params(opt)
    IN  (\A i, j \in DOMAIN opt : (opt[i] /\ i < j) => opt[j]) =>
            r = IF params[1] # "other" /\ \E n \in m .. Len(opt) : given = 1 .. n
                THEN Given(Cardinality(given)) ELSE Refused

-----------------------------------------------------------------------------
(* Batches.  A request in the body is a record: whether its envelope is    *)
(* well formed (an object with "jsonrpc" and "method"), its id ("none",    *)
(* "valid" or "invalid"), and whether its method succeeds.  An answer is   *)
(* the position of the request it answers, and "result" or "error".        *)

Answer(k, kind) == <<k, kind>>

(* What one entry adds to the answers, and whether its method is run.  An  *)
(* invalid id is answered, and the method run all the same.                *)
Envelope(e, k) == IF ~ e.wellFormed \/ e.id = "invalid" THEN <<Answer(k, "error")>> ELSE <<>>
jsonrpc_dispatch_method(e, k) == Answer(k, IF e.succeeds THEN "result" ELSE "error")

EntryAnswers(e, k) ==
    Envelope(e, k) \o IF e.wellFormed /\ e.id # "none" THEN <<jsonrpc_dispatch_method(e, k)>> ELSE <<>>

(* The reply to an HTTP request: its status and the answers in its body.   *)
(* batch is the entries of an array or the one entry that came alone.      *)
handle_request(verb, root, parses, array, batch) ==
    LET answers == FlattenSeq([k \in DOMAIN batch |-> EntryAnswers(batch[k], k)])
    IN  CASE verb = "options" -> <<204, <<>>>>
          [] verb \notin {"options", "post"} -> <<405, <<>>>>
          [] verb = "post" /\ ~ root -> <<404, <<>>>>
          [] verb = "post" /\ root /\ (~ parses \/ batch = <<>>) -> <<200, <<Answer(0, "error")>>>>
          [] OTHER -> <<200, IF array \/ answers = <<>> THEN answers ELSE <<answers[1]>> >>

(* Reference: a batch of requests with valid ids or none is answered in    *)
(* order, once for each request with an id and for each that is malformed, *)
(* and not for a notification; the body is empty when there is nothing to  *)
(* say, and nothing is run for a request that is not a POST to the root.   *)
BatchAnswered(verb, root, parses, array, batch) ==
    LET r == handle_request(verb, root, parses, array, batch)
        due == SelectSeq([k \in DOMAIN batch |-> k],
                         LAMBDA k : ~ batch[k].wellFormed \/ batch[k].id = "valid")
    IN  IF verb = "post" /\ root /\ parses /\ batch # <<>> /\ (\A k \in DOMAIN batch : batch[k].id # "invalid")
        THEN /\ r[1] = 200
             /\ r[2] = [i \in DOMAIN due |->
                           <<due[i], IF batch[due[i]].wellFormed /\ batch[due[i]].succeeds
                                     THEN "result" ELSE "error">>]
        ELSE (verb # "post" \/ ~ root) => r[1] # 200 /\ r[2] = <<>>
=============================================================================
